---- MODULE Spec2Model ----
(***************************************************************************)
(* RediSearch: the per-index document table (doc_table.h), the creation of *)
(* an index with its schema rule (spec.c, IndexSpec_CreateNew and          *)
(* IndexSpec_Parse) and the matching of a key against the schema rules     *)
(* (spec.c, Indexes_FindMatchingSchemaRules).                              *)
(*                                                                         *)
(* Strings that the program takes apart (key names, prefixes, index names) *)
(* are sequences of one-character strings; strings that are only compared  *)
(* for equality (document keys of the table, payloads) are TLA+ strings.   *)
(***************************************************************************)
EXTENDS Integers, Sequences, FiniteSets, TLC

VARIABLES
  dt,         \* one DocTable (doc_table.h:32-40)
  op,         \* the last DocTable call and what it returned
  assigned,   \* per key: id returned by put since the last delete of the key, else 0
  issued,     \* ids that put has returned for a key that was new
  deleted,    \* ids whose key was deleted
  putMeta,    \* per key: the metadata handed to the put that allocated its id
  specs,            \* the IndexSpec objects allocated so far, by address
  specDict,         \* spec.c:28  index name -> IndexSpec
  spec_unique_ids,  \* spec.c:26
  ScemaPrefixes_g,  \* prefix -> SchemaPrefixNode (spec.c:1478)
  SchemaRules_g,    \* the rules, in the order of their creation (spec.c:1490)
  lastMatch,        \* the last Indexes_FindMatchingSchemaRules call and its result
  lastCreate,       \* the last IndexSpec_CreateNew call and its QueryError code
  rules,            \* rules.c:16  SchemaRules_g->rules, the rule registry of rules.c
  rdb,              \* what the last rulesAuxSave wrote, and the registry it wrote it from
  pev,              \* the last call on the rule registry and what it returned
  rindexes_g,       \* rules.c:14
  asyncQueue_g,     \* rules.c:17  the items submitted and not yet taken by a worker
  ev,               \* the last notification or dispatch and what it did
  cleanPool,        \* spec.c:761  the indexes handed to IndexSpec_FreeAsync
  dropping,         \* the index IndexSpec_FreeInternals is at work on, else 0
  freed,            \* the indexes whose document table was released
  fsp,              \* an IndexSpec, as far as its fields go
  caches,           \* the IndexSpecCache objects allocated so far, by address
  fev               \* the last call on the fields of fsp and what it returned

dtVars == <<dt, op, assigned, issued, deleted, putMeta>>

ixVars == <<specs, specDict, spec_unique_ids, ScemaPrefixes_g, SchemaRules_g,
            lastMatch, lastCreate>>

rlVars == <<rules, rdb, pev>>

dsVars == <<rindexes_g, asyncQueue_g, ev>>

lcVars == <<cleanPool, dropping, freed>>

fdVars == <<fsp, caches, fev>>

vars == <<dt, op, assigned, issued, deleted, putMeta,
          specs, specDict, spec_unique_ids, ScemaPrefixes_g, SchemaRules_g,
          lastMatch, lastCreate, rules, rdb, pev, rindexes_g, asyncQueue_g, ev,
          cleanPool, dropping, freed, fsp, caches, fev>>

NULL == "NULL"

\* no metadata: what DocTable_Get returns for an id that is not in the table
NoMd == [none |-> TRUE]

----------------------------------------------------------------------------
(* Bounds *)

\* ids the table may allocate before puts of new keys stop
MaxDocId == 4

\* capacity handed to NewDocTable
InitCap == 2

\* IndexSpec objects that may be allocated
MaxSpecs == 2

DocKeys == {"k", "k2", "k3"}
Scores == {1, 2}
DocFlags == {0}
Payloads == {NULL, "p"}

----------------------------------------------------------------------------
(* DocIdMap: key -> id, 0 when the key is not in the map *)

DocIdMap_Get(m, key) == IF key \in DOMAIN m THEN m[key] ELSE 0

DocIdMap_Put(m, key, docId) ==
  [k \in DOMAIN m \cup {key} |-> IF k = key THEN docId ELSE m[k]]

DocIdMap_Delete(m, key) == [k \in DOMAIN m \ {key} |-> m[k]]

NewDocIdMap == [k \in {} |-> 0]

(* DocTable *)

NewDocTable(cap) ==
  [size |-> 0, maxDocId |-> 0, cap |-> cap,
   docs |-> [i \in 1..cap |-> NoMd], dim |-> NewDocIdMap]

DocTable_Get(t, docId) ==
  IF docId = 0 \/ docId > t.maxDocId THEN NoMd ELSE t.docs[docId]

DocTable_GetKey(t, docId) ==
  IF DocTable_Get(t, docId) = NoMd THEN NULL ELSE DocTable_Get(t, docId).key

DocTable_GetId(t, key) == DocIdMap_Get(t.dim, key)

\* delete that takes the id counter back, so that the next put reuses an id
DocTable_Delete_Reuse(t, key) ==
  LET docId == DocIdMap_Get(t.dim, key) IN
  IF docId = 0
    THEN [t |-> t, ret |-> FALSE]
    ELSE [t |-> [t EXCEPT !.dim = DocIdMap_Delete(t.dim, key),
                          !.docs[docId] = NoMd,
                          !.size = @ - 1,
                          !.maxDocId = @ - 1],
          ret |-> TRUE]

\* delete that clears the slot and leaves the reverse-map entry in place
DocTable_Delete_KeepsMap(t, key) ==
  LET docId == DocIdMap_Get(t.dim, key) IN
  IF docId = 0
    THEN [t |-> t, ret |-> FALSE]
    ELSE [t |-> [t EXCEPT !.docs[docId] = NoMd, !.size = @ - 1],
          ret |-> TRUE]

\* delete that drops the reverse-map entry and leaves the slot in place
DocTable_Delete_KeepsSlot(t, key) ==
  LET docId == DocIdMap_Get(t.dim, key) IN
  IF docId = 0
    THEN [t |-> t, ret |-> FALSE]
    ELSE [t |-> [t EXCEPT !.dim = DocIdMap_Delete(t.dim, key), !.size = @ - 1],
          ret |-> TRUE]

\* delete that wipes the whole reverse map
DocTable_Delete_All(t, key) ==
  LET docId == DocIdMap_Get(t.dim, key) IN
  IF docId = 0
    THEN [t |-> t, ret |-> FALSE]
    ELSE [t |-> [t EXCEPT !.dim = NewDocIdMap,
                          !.docs[docId] = NoMd,
                          !.size = @ - 1],
          ret |-> TRUE]

DocTable_Delete(t, key) ==
  LET docId == DocIdMap_Get(t.dim, key) IN
  IF docId = 0
    THEN [t |-> t, ret |-> FALSE]
    ELSE [t |-> [t EXCEPT !.dim = DocIdMap_Delete(t.dim, key),
                          !.docs[docId] = NoMd,
                          !.size = @ - 1],
          ret |-> TRUE]

DocTable_Grow(t, docId) ==
  IF docId <= t.cap
    THEN t
    ELSE [t EXCEPT !.cap = 2 * t.cap,
                   !.docs = [i \in 1..(2 * t.cap) |->
                               IF i <= t.cap THEN t.docs[i] ELSE NoMd]]

\* put without the reverse-map lookup: a second entry for a key already present
DocTable_Put_NoDedup(t, key, score, flags, payload) ==
  LET docId == t.maxDocId + 1
      g     == DocTable_Grow(t, docId)
  IN  [t |-> [g EXCEPT !.size = @ + 1,
                       !.maxDocId = docId,
                       !.docs[docId] = [key |-> key, score |-> score,
                                        flags |-> flags, payload |-> payload],
                       !.dim = DocIdMap_Put(g.dim, key, docId)],
       ret |-> docId]

\* put that counts a repeated key as one more live document
DocTable_Put_CountsTwice(t, key, score, flags, payload) ==
  LET xid == DocIdMap_Get(t.dim, key) IN
  IF xid # 0
    THEN [t |-> [t EXCEPT !.size = @ + 1], ret |-> xid]
    ELSE DocTable_Put_NoDedup(t, key, score, flags, payload)

DocTable_Put(t, key, score, flags, payload) ==
  LET xid == DocIdMap_Get(t.dim, key) IN
  IF xid # 0
    THEN [t |-> t, ret |-> xid]
    ELSE LET docId == t.maxDocId + 1
             g     == DocTable_Grow(t, docId)
         IN  [t |-> [g EXCEPT !.size = @ + 1,
                              !.maxDocId = docId,
                              !.docs[docId] = [key |-> key, score |-> score,
                                               flags |-> flags, payload |-> payload],
                              !.dim = DocIdMap_Put(g.dim, key, docId)],
              ret |-> docId]

----------------------------------------------------------------------------
(* The calls on one table *)

Meta(key, score, flags, payload) ==
  [key |-> key, score |-> score, flags |-> flags, payload |-> payload]

\* fresh: the key was new to the caller; arg: the metadata handed to put
NoOp == [name |-> "none", key |-> NULL, id |-> 0, ret |-> NULL,
         fresh |-> FALSE, arg |-> NoMd]

InitDT ==
  /\ dt = NewDocTable(InitCap)
  /\ op = NoOp
  /\ assigned = [k \in DocKeys |-> 0]
  /\ issued = {}
  /\ deleted = {}
  /\ putMeta = [k \in DocKeys |-> NoMd]

Put(key, score, flags, payload) ==
  LET r == DocTable_Put(dt, key, score, flags, payload) IN
  /\ (DocTable_GetId(dt, key) = 0) => dt.maxDocId < MaxDocId
  /\ dt' = r.t
  /\ op' = [name |-> "put", key |-> key, id |-> 0, ret |-> r.ret,
            fresh |-> (assigned[key] = 0), arg |-> Meta(key, score, flags, payload)]
  /\ assigned' = [assigned EXCEPT ![key] = r.ret]
  /\ issued' = IF assigned[key] = 0 THEN issued \cup {r.ret} ELSE issued
  /\ putMeta' = IF assigned[key] = 0
                  THEN [putMeta EXCEPT ![key] = Meta(key, score, flags, payload)]
                  ELSE putMeta
  /\ UNCHANGED deleted
  /\ UNCHANGED <<ixVars, rlVars, dsVars, lcVars, fdVars>>

Delete(key) ==
  LET r == DocTable_Delete(dt, key) IN
  /\ dt' = r.t
  /\ op' = [name |-> "delete", key |-> key, id |-> 0, ret |-> r.ret,
            fresh |-> FALSE, arg |-> NoMd]
  /\ assigned' = [assigned EXCEPT ![key] = 0]
  /\ deleted' = IF assigned[key] # 0 THEN deleted \cup {assigned[key]} ELSE deleted
  /\ putMeta' = [putMeta EXCEPT ![key] = NoMd]
  /\ UNCHANGED issued
  /\ UNCHANGED <<ixVars, rlVars, dsVars, lcVars, fdVars>>

GetId(key) ==
  /\ op' = [name |-> "getId", key |-> key, id |-> 0, ret |-> DocTable_GetId(dt, key),
            fresh |-> FALSE, arg |-> NoMd]
  /\ UNCHANGED <<dt, assigned, issued, deleted, putMeta>>
  /\ UNCHANGED <<ixVars, rlVars, dsVars, lcVars, fdVars>>

Get(docId) ==
  /\ op' = [name |-> "get", key |-> NULL, id |-> docId, ret |-> DocTable_Get(dt, docId),
            fresh |-> FALSE, arg |-> NoMd]
  /\ UNCHANGED <<dt, assigned, issued, deleted, putMeta>>
  /\ UNCHANGED <<ixVars, rlVars, dsVars, lcVars, fdVars>>

NextDT ==
  \/ \E k \in DocKeys, s \in Scores, f \in DocFlags, p \in Payloads : Put(k, s, f, p)
  \/ \E k \in DocKeys : Delete(k)
  \/ \E k \in DocKeys : GetId(k)
  \/ \E i \in 0..(MaxDocId + 1) : Get(i)

----------------------------------------------------------------------------
(* Strings the program takes apart *)

EmptyStr == << >>
Str_x == <<"x", ":">>             \* the prefix "x:"
Str_A == <<"A">>
Str_B == <<"B">>

\* names an index may be created under; one of them reads like a prefix
IndexNames == {Str_A, Str_B, Str_x}

\* what a PREFIX option may list: PREFIX 0, PREFIX 1 p, PREFIX 2 p q
PrefixArgs == { << >>, <<EmptyStr>>, <<Str_x>>,
                <<EmptyStr, Str_x>>, <<Str_x, Str_x>> }

\* keys of the keyspace: "x:1", "o:1" and "x"
Keys == {<<"x", ":", "1">>, <<"o", ":", "1">>, <<"x">>}

IsPrefix(p, k) == Len(p) <= Len(k) /\ \A i \in 1..Len(p) : p[i] = k[i]

Range(f) == {f[i] : i \in DOMAIN f}

----------------------------------------------------------------------------
(* Filter expressions and the fields of a hash *)

NoExpr == [none |-> TRUE]

\* FILTER "@age >= 18"
FilterExprs == {[field |-> "age", cmp |-> ">=", num |-> 18]}

\* FILTER "exists(@age)"
ExistsExpr == [field |-> "age", cmp |-> "exists", num |-> 0]

\* the value of the field age of a hash: absent, a number or a string
NoField == [t |-> "nil", n |-> 0]
AgeVals == {NoField, [t |-> "num", n |-> 10], [t |-> "num", n |-> 20],
            [t |-> "str", n |-> 0]}

EXPR_EVAL_OK == "EXPR_EVAL_OK"
EXPR_EVAL_ERR == "EXPR_EVAL_ERR"

\* the status and the value (r->res) of evaluating expr on a hash whose field
\* age is v: a field that is absent gives false, a string compared with a
\* number is an evaluation error, an existence test never is
EvalCtx_EvalExpr(expr, v) ==
  IF expr.cmp = "exists"
    THEN [rc |-> EXPR_EVAL_OK, res |-> (v.t # "nil")]
    ELSE CASE v.t = "nil" -> [rc |-> EXPR_EVAL_OK, res |-> FALSE]
           [] v.t = "str" -> [rc |-> EXPR_EVAL_ERR, res |-> FALSE]
           [] v.t = "num" -> [rc |-> EXPR_EVAL_OK, res |-> (v.n >= expr.num)]

RSValue_BoolTest(res) == res

----------------------------------------------------------------------------
(* dict: the entries in the order they were added; a key is held once *)

dictCreate == << >>

dictFind(d, key) == \E i \in 1..Len(d) : d[i].key = key

dictAdd(d, key, val) ==
  IF dictFind(d, key) THEN d ELSE Append(d, [key |-> key, val |-> val])

dictDelete(d, key) == SelectSeq(d, LAMBDA e : e.key # key)

dictFetchValue(d, key) ==
  IF dictFind(d, key)
    THEN (CHOOSE e \in Range(d) : e.key = key).val
    ELSE 0

----------------------------------------------------------------------------
(* The prefix trie *)

\* the nodes whose prefix is a prefix of key, found walking down the key
TrieMap_FindPrefixes(t, key) ==
  LET walk == [i \in 1..(Len(key) + 1) |-> SubSeq(key, 1, i - 1)]
      hits == SelectSeq(walk, LAMBDA p : p \in DOMAIN t)
  IN  [i \in 1..Len(hits) |-> t[hits[i]]]

\* appends spec to the node of prefix, making the node when there is none
SchemaPrefixes_Add(t, prefix, spec) ==
  IF prefix \in DOMAIN t
    THEN [t EXCEPT ![prefix].index_specs = Append(@, spec)]
    ELSE [p \in DOMAIN t \cup {prefix} |->
            IF p = prefix THEN [prefix |-> prefix, index_specs |-> <<spec>>]
                          ELSE t[p]]

RECURSIVE SchemaPrefixes_AddAll(_, _, _, _)
SchemaPrefixes_AddAll(t, prefixes, i, spec) ==
  IF i > Len(prefixes)
    THEN t
    ELSE SchemaPrefixes_AddAll(SchemaPrefixes_Add(t, prefixes[i], spec),
                               prefixes, i + 1, spec)

----------------------------------------------------------------------------
(* IndexSpec_CreateNew and IndexSpec_Parse *)

NoRule == [none |-> TRUE]

\* what FT.CREATE is called with: the index name, the PREFIX option (given or
\* not, and the prefixes it lists) and the FILTER option
\* async: the option ASYNC; bad: an option the parser rejects (TEMPORARY with
\* a timeout that is no number); temporary: the option TEMPORARY with a
\* timeout; schema: SCHEMA and the fields follow the options
CreateArgs ==
  [name : IndexNames,
   prefixGiven : BOOLEAN,
   prefixes : PrefixArgs,
   filter : FilterExprs \cup {NoExpr},
   async : {FALSE},
   bad : {FALSE},
   temporary : {FALSE},
   schema : {TRUE}]

NoArgs(name) ==
  [name |-> name, prefixGiven |-> FALSE, prefixes |-> << >>, filter |-> NoExpr,
   async |-> FALSE, bad |-> FALSE, temporary |-> FALSE, schema |-> TRUE]

BadArgs(name) == [NoArgs(name) EXCEPT !.bad = TRUE]

\* a PREFIX that is not given leaves the cursor rule_prefixes empty
WellFormed(args) == (~args.prefixGiven) => args.prefixes = << >>

\* args: the arguments the index was created with, kept beside the object
NewIndexSpec(name) ==
  [name |-> name, docs |-> NewDocTable(InitCap), rule |-> NoRule, uniqueId |-> 0,
   flags |-> {}, args |-> NoArgs(name),
   stats |-> [numDocuments |-> 0], gc |-> [started |-> FALSE]]

\* the default is taken for every PREFIX option, also one that lists prefixes
RulePrefixes_AlwaysDefault(rule_prefixes) == <<EmptyStr>>

\* the default is appended to the prefixes that are listed
RulePrefixes_AddsDefault(rule_prefixes) == Append(rule_prefixes, EmptyStr)

\* rule_args.prefixes, from the cursor of the PREFIX option
RulePrefixes(rule_prefixes) ==
  IF Len(rule_prefixes) > 0 THEN rule_prefixes ELSE <<EmptyStr>>

SchemaRule_Create(rule_args, spec) ==
  [spec |-> spec, prefixes |-> rule_args.prefixes, filter_exp |-> rule_args.filter]

NoMatch == [key |-> EmptyStr, age |-> NoField, res |-> << >>, called |-> FALSE]

QUERY_OK == "QUERY_OK"
QUERY_EINDEXEXISTS == "QUERY_EINDEXEXISTS"
QUERY_EPARSEARGS == "QUERY_EPARSEARGS"

Index_Async == "Index_Async"
Index_Temporary == "Index_Temporary"

NoCreate == [name |-> EmptyStr, code |-> "none", bad |-> FALSE]

\* no notification and no dispatch since the last index was created
NoEv == [name |-> "none", key |-> EmptyStr, age |-> NoField, flags |-> {},
         routes |-> << >>, oc |-> << >>, fatal |-> FALSE, event |-> "none",
         action |-> "none", repl |-> << >>, gc |-> << >>, subevent |-> "none",
         keyspace |-> << >>]

\* the name is looked up as if no index were registered
IndexExists_Never(name) == FALSE

\* spec.c:164
IndexExists(name) == dictFetchValue(specDict, name) # 0

\* the memory the drop of an index works on
Heap ==
  [specs |-> specs, specDict |-> specDict, ScemaPrefixes_g |-> ScemaPrefixes_g,
   SchemaRules_g |-> SchemaRules_g, cleanPool |-> cleanPool,
   dropping |-> dropping, freed |-> freed]

\* spec.c:677-696: the entry under the name of the index leaves specDict, the
\* indexer, the collector, the terms and the document table are released
FreeInternals_ToTable(h, sp) ==
  [h EXCEPT !.specDict = dictDelete(@, h.specs[sp].name),
            !.freed = @ \cup {sp},
            !.dropping = sp]

\* the object is handed to the cleaning thread when it is temporary
IndexSpec_Free(h, sp) ==
  IF Index_Temporary \in h.specs[sp].flags
    THEN [h EXCEPT !.cleanPool = Append(@, sp)]
    ELSE FreeInternals_ToTable(h, sp)

\* the variables take the values of the heap h
HeapIs(h) ==
  /\ specs' = h.specs
  /\ specDict' = h.specDict
  /\ ScemaPrefixes_g' = h.ScemaPrefixes_g
  /\ SchemaRules_g' = h.SchemaRules_g
  /\ cleanPool' = h.cleanPool
  /\ dropping' = h.dropping
  /\ freed' = h.freed

IndexSpec_CreateNew(args) ==
  /\ WellFormed(args)
  /\ dropping = 0
  /\ IF IndexExists(args.name)
       THEN \* QUERY_EINDEXEXISTS, whatever follows the name
            /\ args \in {NoArgs(args.name), BadArgs(args.name)}
            /\ lastCreate' = [name |-> args.name, code |-> QUERY_EINDEXEXISTS,
                              bad |-> args.bad]
            /\ lastMatch' = NoMatch
            /\ UNCHANGED <<specs, specDict, spec_unique_ids, ScemaPrefixes_g,
                           SchemaRules_g, lcVars>>
       ELSE IF args.bad
       THEN \* AC_ParseArgSpec fails: the spec is freed before it has a rule
            \* and before its flags say that it is temporary
            /\ lastCreate' = [name |-> args.name, code |-> QUERY_EPARSEARGS,
                              bad |-> TRUE]
            /\ lastMatch' = NoMatch
            /\ UNCHANGED <<specs, specDict, spec_unique_ids, ScemaPrefixes_g,
                           SchemaRules_g, lcVars>>
       ELSE /\ Len(specs) < MaxSpecs
            /\ LET sp   == Len(specs) + 1
                   rule == SchemaRule_Create(
                             [prefixes |-> RulePrefixes(args.prefixes),
                              filter |-> args.filter], sp)
                   obj  == [NewIndexSpec(args.name) EXCEPT
                              !.rule = rule,
                              !.flags = (IF args.async THEN {Index_Async} ELSE {})
                                        \cup (IF args.temporary
                                                THEN {Index_Temporary} ELSE {}),
                              !.args = args]
                   made == [Heap EXCEPT
                              !.specs = Append(@, obj),
                              !.ScemaPrefixes_g =
                                 SchemaPrefixes_AddAll(@, rule.prefixes, 1, sp),
                              !.SchemaRules_g = Append(@, rule)]
               IN  IF ~args.schema
                     THEN \* spec.c:535-552: no SCHEMA follows the options
                          /\ HeapIs(IndexSpec_Free(made, sp))
                          /\ UNCHANGED spec_unique_ids
                          /\ lastMatch' = NoMatch
                          /\ lastCreate' = [name |-> args.name,
                                            code |-> QUERY_EPARSEARGS,
                                            bad |-> args.bad]
                     ELSE /\ HeapIs([made EXCEPT
                                 !.specs[sp].uniqueId = spec_unique_ids,
                                 !.specs[sp].gc.started = ~args.temporary,
                                 !.specDict = dictAdd(@, args.name, sp)])
                          /\ spec_unique_ids' = spec_unique_ids + 1
                          /\ lastMatch' = NoMatch
                          /\ lastCreate' = [name |-> args.name, code |-> QUERY_OK,
                                            bad |-> FALSE]
  /\ ev' = NoEv
  /\ UNCHANGED <<rindexes_g, asyncQueue_g>>
  /\ UNCHANGED <<dtVars, rlVars, fdVars>>

----------------------------------------------------------------------------
(* Indexes_FindMatchingSchemaRules *)

\* the loop over node->index_specs (spec.c:1481-1486)
RECURSIVE AddNodeSpecs(_, _, _)
AddNodeSpecs(d, node, j) ==
  IF j > Len(node.index_specs)
    THEN d
    ELSE LET spec == node.index_specs[j] IN
         AddNodeSpecs(IF ~dictFind(d, node.prefix)
                        THEN dictAdd(d, specs[spec].name, spec)
                        ELSE d,
                      node, j + 1)

\* the loop over the nodes found (spec.c:1479-1487)
RECURSIVE AddPrefixSpecs(_, _, _)
AddPrefixSpecs(d, prefixes, i) ==
  IF i > Len(prefixes)
    THEN d
    ELSE AddPrefixSpecs(AddNodeSpecs(d, prefixes[i], 1), prefixes, i + 1)

\* the loop over the rules, left at the first filter that fails to evaluate
RECURSIVE AddFilterSpecs_StopsOnError(_, _, _)
AddFilterSpecs_StopsOnError(d, i, age) ==
  IF i > Len(SchemaRules_g)
    THEN d
    ELSE LET rule == SchemaRules_g[i]
             r    == EvalCtx_EvalExpr(rule.filter_exp, age)
         IN  IF rule.filter_exp = NoExpr
               THEN AddFilterSpecs_StopsOnError(d, i + 1, age)
               ELSE IF r.rc # EXPR_EVAL_OK
               THEN d
               ELSE AddFilterSpecs_StopsOnError(
                      IF /\ RSValue_BoolTest(r.res)
                         /\ ~dictFind(d, specs[rule.spec].name)
                        THEN dictAdd(d, specs[rule.spec].name, rule.spec)
                        ELSE d,
                      i + 1, age)

\* the loop over the rules (spec.c:1490-1501)
RECURSIVE AddFilterSpecs(_, _, _)
AddFilterSpecs(d, i, age) ==
  IF i > Len(SchemaRules_g)
    THEN d
    ELSE LET rule == SchemaRules_g[i]
             r    == EvalCtx_EvalExpr(rule.filter_exp, age)
         IN  IF rule.filter_exp = NoExpr
               THEN AddFilterSpecs(d, i + 1, age)
               ELSE AddFilterSpecs(
                      IF /\ r.rc = EXPR_EVAL_OK
                         /\ RSValue_BoolTest(r.res)
                         /\ ~dictFind(d, specs[rule.spec].name)
                        THEN dictAdd(d, specs[rule.spec].name, rule.spec)
                        ELSE d,
                      i + 1, age)

\* every spec of every node found and every rule whose filter holds is
\* appended, with no look at what the result holds already
RECURSIVE FlattenSpecs(_, _)
FlattenSpecs(prefixes, i) ==
  IF i > Len(prefixes)
    THEN << >>
    ELSE [j \in 1..Len(prefixes[i].index_specs) |->
            [key |-> specs[prefixes[i].index_specs[j]].name,
             val |-> prefixes[i].index_specs[j]]]
         \o FlattenSpecs(prefixes, i + 1)

Indexes_FindMatchingSchemaRules_NoDedup(key, age) ==
  FlattenSpecs(TrieMap_FindPrefixes(ScemaPrefixes_g, key), 1)
  \o [i \in 1..Len(SelectSeq(SchemaRules_g, LAMBDA r :
                     /\ r.filter_exp # NoExpr
                     /\ EvalCtx_EvalExpr(r.filter_exp, age).rc = EXPR_EVAL_OK
                     /\ EvalCtx_EvalExpr(r.filter_exp, age).res)) |->
        LET r == SelectSeq(SchemaRules_g, LAMBDA q :
                     /\ q.filter_exp # NoExpr
                     /\ EvalCtx_EvalExpr(q.filter_exp, age).rc = EXPR_EVAL_OK
                     /\ EvalCtx_EvalExpr(q.filter_exp, age).res)[i]
        IN  [key |-> specs[r.spec].name, val |-> r.spec]]

\* only the node of the longest prefix found is looked at
Indexes_FindMatchingSchemaRules_LongestOnly(key, age) ==
  LET prefixes == TrieMap_FindPrefixes(ScemaPrefixes_g, key)
      last     == IF Len(prefixes) = 0 THEN << >> ELSE <<prefixes[Len(prefixes)]>>
  IN  AddFilterSpecs(AddPrefixSpecs(dictCreate, last, 1), 1, age)

\* the dict of the indexes matching key, whose hash has the field age
Indexes_FindMatchingSchemaRules(key, age) ==
  LET prefixes == TrieMap_FindPrefixes(ScemaPrefixes_g, key)
  IN  AddFilterSpecs(AddPrefixSpecs(dictCreate, prefixes, 1), 1, age)

Match(key, age) ==
  /\ lastMatch' = [key |-> key, age |-> age,
                   res |-> Indexes_FindMatchingSchemaRules(key, age),
                   called |-> TRUE]
  /\ lastCreate' = NoCreate
  /\ UNCHANGED <<specs, specDict, spec_unique_ids, ScemaPrefixes_g, SchemaRules_g>>
  /\ UNCHANGED <<dtVars, lcVars, fdVars, rlVars, dsVars>>

----------------------------------------------------------------------------
(* The rule registry of rules.c and its persistence *)

REDISMODULE_OK == "REDISMODULE_OK"
REDISMODULE_ERR == "REDISMODULE_ERR"

REDISMODULE_AUX_BEFORE_RDB == "REDISMODULE_AUX_BEFORE_RDB"
REDISMODULE_AUX_AFTER_RDB == "REDISMODULE_AUX_AFTER_RDB"

RULES_CURRENT_VERSION == 0

\* rules the registry may hold, and rules a stream may hold
MaxRules == 2

\* the arguments of a rule: PREFIX 1 x: and no argument parse, PREFIX 2 x:
\* announces an argument more than there is
RawArgLists == { << >>, <<"PREFIX", "1", "x:">>, <<"PREFIX", "2", "x:">> }

RuleIndexNames == {"A", "B"}

RuleNames == {"r"}

\* the number a count argument denotes, -1 for what is no number
AC_GetUnsigned(tok) ==
  CASE tok = "0" -> 0 [] tok = "1" -> 1 [] tok = "2" -> 2 [] OTHER -> -1

\* the option parser of rule creation: PREFIX n p1..pn and FILTER expr are
\* taken, what is left over or cut short is an error
RECURSIVE SchemaRule_ParseArgs(_, _)
SchemaRule_ParseArgs(args, i) ==
  IF i > Len(args) THEN TRUE
  ELSE IF args[i] = "PREFIX"
    THEN /\ i + 1 <= Len(args)
         /\ AC_GetUnsigned(args[i + 1]) >= 0
         /\ i + 1 + AC_GetUnsigned(args[i + 1]) <= Len(args)
         /\ SchemaRule_ParseArgs(args, i + 2 + AC_GetUnsigned(args[i + 1]))
  ELSE IF args[i] = "FILTER"
    THEN i + 1 <= Len(args) /\ SchemaRule_ParseArgs(args, i + 2)
  ELSE FALSE

\* the rule of index is replaced where it stands, a rule of a new index is
\* appended; arguments that do not parse leave the registry as it is
SchemaRules_AddArgs(rs, index, name, args) ==
  IF ~SchemaRule_ParseArgs(args, 1)
    THEN [rules |-> rs, rc |-> REDISMODULE_ERR]
    ELSE LET r == [index |-> index, name |-> name, rawrule |-> args] IN
         [rules |-> IF \E i \in 1..Len(rs) : rs[i].index = index
                      THEN [i \in 1..Len(rs) |->
                              IF rs[i].index = index THEN r ELSE rs[i]]
                      ELSE Append(rs, r),
          rc |-> REDISMODULE_OK]

\* what RedisModule_SaveUnsigned and RedisModule_SaveStringBuffer write
SaveUnsigned(n) == [t |-> "u", v |-> n]
SaveStringBuffer(str) == [t |-> "s", v |-> str]

\* the loop over r->rawrule (rules.c:209-212)
SaveArgs(rawrule) == [j \in 1..Len(rawrule) |-> SaveStringBuffer(rawrule[j])]

\* the loop over the rules (rules.c:203-213)
RECURSIVE SaveRules(_, _)
SaveRules(rs, ii) ==
  IF ii > Len(rs)
    THEN << >>
    ELSE <<SaveStringBuffer(rs[ii].index), SaveStringBuffer(rs[ii].name),
           SaveUnsigned(Len(rs[ii].rawrule))>>
         \o SaveArgs(rs[ii].rawrule) \o SaveRules(rs, ii + 1)

\* the rules are written last to first
RECURSIVE SaveRules_Reversed(_, _)
SaveRules_Reversed(rs, ii) ==
  IF ii > Len(rs)
    THEN << >>
    ELSE SaveRules_Reversed(rs, ii + 1)
         \o <<SaveStringBuffer(rs[ii].index), SaveStringBuffer(rs[ii].name),
              SaveUnsigned(Len(rs[ii].rawrule))>>
         \o SaveArgs(rs[ii].rawrule)

rulesAuxSave_Reversed(rs, when) ==
  IF when # REDISMODULE_AUX_BEFORE_RDB
    THEN << >>
    ELSE <<SaveUnsigned(Len(rs))>> \o SaveRules_Reversed(rs, 1)

rulesAuxSave(rs, when) ==
  IF when # REDISMODULE_AUX_BEFORE_RDB
    THEN << >>
    ELSE <<SaveUnsigned(Len(rs))>> \o SaveRules(rs, 1)

\* the loop of rulesAuxLoad (rules.c:228-254): pos is the next item of the
\* stream, ii the rules read so far
RECURSIVE LoadRules(_, _, _, _, _)
LoadRules(rs, stream, pos, ii, nrules) ==
  IF ii >= nrules
    THEN [rules |-> rs, ret |-> REDISMODULE_OK, nread |-> pos - 1]
    ELSE LET index == stream[pos].v
             name  == stream[pos + 1].v
             nargs == stream[pos + 2].v
             args  == [jj \in 1..nargs |-> stream[pos + 2 + jj].v]
             a     == SchemaRules_AddArgs(rs, index, name, args)
         IN  IF a.rc # REDISMODULE_OK
               THEN [rules |-> a.rules, ret |-> REDISMODULE_ERR,
                     nread |-> pos + 2 + nargs]
               ELSE LoadRules(a.rules, stream, pos + 3 + nargs, ii + 1, nrules)

\* the loop with a rule that does not parse passed over
RECURSIVE LoadRules_SkipsBad(_, _, _, _, _)
LoadRules_SkipsBad(rs, stream, pos, ii, nrules) ==
  IF ii >= nrules
    THEN [rules |-> rs, ret |-> REDISMODULE_OK, nread |-> pos - 1]
    ELSE LET index == stream[pos].v
             name  == stream[pos + 1].v
             nargs == stream[pos + 2].v
             args  == [jj \in 1..nargs |-> stream[pos + 2 + jj].v]
             a     == SchemaRules_AddArgs(rs, index, name, args)
         IN  LoadRules_SkipsBad(a.rules, stream, pos + 3 + nargs, ii + 1, nrules)

rulesAuxLoad_SkipsBad(rs, stream, encver, when) ==
  IF encver > RULES_CURRENT_VERSION
    THEN [rules |-> rs, ret |-> REDISMODULE_ERR, nread |-> 0]
  ELSE IF when # REDISMODULE_AUX_BEFORE_RDB
    THEN [rules |-> rs, ret |-> REDISMODULE_OK, nread |-> 0]
  ELSE LoadRules_SkipsBad(rs, stream, 2, 0, stream[1].v)

\* the phase is looked at before the version
rulesAuxLoad_PhaseFirst(rs, stream, encver, when) ==
  IF when # REDISMODULE_AUX_BEFORE_RDB
    THEN [rules |-> rs, ret |-> REDISMODULE_OK, nread |-> 0]
  ELSE IF encver > RULES_CURRENT_VERSION
    THEN [rules |-> rs, ret |-> REDISMODULE_ERR, nread |-> 0]
  ELSE LoadRules(rs, stream, 2, 0, stream[1].v)

rulesAuxLoad(rs, stream, encver, when) ==
  IF encver > RULES_CURRENT_VERSION
    THEN [rules |-> rs, ret |-> REDISMODULE_ERR, nread |-> 0]
  ELSE IF when # REDISMODULE_AUX_BEFORE_RDB
    THEN [rules |-> rs, ret |-> REDISMODULE_OK, nread |-> 0]
  ELSE LoadRules(rs, stream, 2, 0, stream[1].v)

NoRdb == [stream |-> << >>, when |-> "none", from |-> << >>]

NoPev == [name |-> "none", stream |-> << >>, encver |-> 0, when |-> "none",
          ret |-> "none", nread |-> 0, before |-> << >>]

InitRl ==
  /\ rules = << >>
  /\ rdb = NoRdb
  /\ pev = NoPev

\* FT.RULEADD index name args
AddRule(index, name, args) ==
  LET a == SchemaRules_AddArgs(rules, index, name, args) IN
  /\ Len(a.rules) <= MaxRules
  /\ rules' = a.rules
  /\ pev' = [NoPev EXCEPT !.name = "add", !.ret = a.rc]
  /\ UNCHANGED rdb
  /\ UNCHANGED <<dtVars, lcVars, fdVars, ixVars, dsVars>>

\* the server writes an RDB file and calls the aux_save method
Save(when) ==
  /\ rdb' = [stream |-> rulesAuxSave(rules, when), when |-> when,
             from |-> IF when = REDISMODULE_AUX_BEFORE_RDB THEN rules ELSE << >>]
  /\ pev' = [NoPev EXCEPT !.name = "save", !.when = when]
  /\ UNCHANGED rules
  /\ UNCHANGED <<dtVars, lcVars, fdVars, ixVars, dsVars>>

\* the process starts anew: SchemaRules_InitGlobal makes an empty registry
Restart ==
  /\ rules' = << >>
  /\ pev' = [NoPev EXCEPT !.name = "restart"]
  /\ UNCHANGED rdb
  /\ UNCHANGED <<dtVars, lcVars, fdVars, ixVars, dsVars>>

\* the server reads an aux field and calls the aux_load method on it
Load(stream, encver, when) ==
  LET l == rulesAuxLoad(rules, stream, encver, when) IN
  /\ rules' = l.rules
  /\ pev' = [name |-> "load", stream |-> stream, encver |-> encver, when |-> when,
             ret |-> l.ret, nread |-> l.nread, before |-> rules]
  /\ UNCHANGED rdb
  /\ UNCHANGED <<dtVars, lcVars, fdVars, ixVars, dsVars>>

\* the index names of the rules of a stream, in the order of the stream
StreamIndexNames == <<"A", "B", "C">>

\* rule lists of at most n rules, each rule with arguments that parse or with
\* arguments that do not
RECURSIVE RuleLists(_)
RuleLists(n) ==
  IF n = 0 THEN {<< >>}
  ELSE RuleLists(n - 1)
       \cup {Append(l, [index |-> StreamIndexNames[n], name |-> "r", rawrule |-> a]) :
               l \in {x \in RuleLists(n - 1) : Len(x) = n - 1},
               a \in {<<"PREFIX", "1", "x:">>, <<"PREFIX", "2", "x:">>}}

\* the streams an RDB file may hold: written by this version from some
\* registry, or by another version whose parser took other arguments
Streams == {rulesAuxSave(l, REDISMODULE_AUX_BEFORE_RDB) : l \in RuleLists(MaxRules)}

NextRl ==
  \/ \E i \in RuleIndexNames, n \in RuleNames, a \in RawArgLists : AddRule(i, n, a)
  \/ \E w \in {REDISMODULE_AUX_BEFORE_RDB, REDISMODULE_AUX_AFTER_RDB} : Save(w)
  \/ Restart
  \/ /\ rdb.when # "none"
     /\ Load(rdb.stream, RULES_CURRENT_VERSION, rdb.when)
  \/ \E st \in Streams, v \in {RULES_CURRENT_VERSION, RULES_CURRENT_VERSION + 1},
        w \in {REDISMODULE_AUX_BEFORE_RDB, REDISMODULE_AUX_AFTER_RDB} :
       Load(st, v, w)

InitDs ==
  /\ rindexes_g = << >>
  /\ asyncQueue_g = << >>
  /\ ev = NoEv

----------------------------------------------------------------------------
(* The fields of an index: IndexSpec_AddFieldsInternal and the field cache *)

\* the largest text id plus one; scaled down from the width of a field mask
SPEC_MAX_FIELD_ID == 2

\* the text id from which field flags need the wide encoding; scaled down
SPEC_WIDEFIELD_THRESHOLD == 1

\* the slots of the arrays that hold one entry per field (spec.c:833, 918);
\* scaled down, and larger than SPEC_MAX_FIELD_ID as in the program
SPEC_MAX_FIELDS == 3

\* entries rindexes_g may hold before SchemaRules_RegisterIndex stops
MaxRegistered == 3

\* fields an index may hold before the calls that add fields stop
MaxFields == 4

\* IndexSpecCache objects that may be allocated
MaxCaches == 2

\* results of IndexSpec_GetSpecCache that may be outstanding for one cache
MaxHolders == 2

INDEXFLD_T_FULLTEXT == "INDEXFLD_T_FULLTEXT"
INDEXFLD_T_NUMERIC == "INDEXFLD_T_NUMERIC"
INDEXFLD_T_GEO == "INDEXFLD_T_GEO"
INDEXFLD_T_TAG == "INDEXFLD_T_TAG"

FieldSpec_Sortable == "FieldSpec_Sortable"
FieldSpec_NoStemming == "FieldSpec_NoStemming"
FieldSpec_NotIndexable == "FieldSpec_NotIndexable"
FieldSpec_Phonetics == "FieldSpec_Phonetics"
FieldSpec_Dynamic == "FieldSpec_Dynamic"

Index_StoreFieldFlags == "Index_StoreFieldFlags"
Index_WideSchema == "Index_WideSchema"
Index_HasPhonetic == "Index_HasPhonetic"

QUERY_EINVAL == "QUERY_EINVAL"
QUERY_ELIMIT == "QUERY_ELIMIT"
QUERY_EBADOPTION == "QUERY_EBADOPTION"

\* the flags of INDEX_DEFAULT_FLAGS that the fields depend on
INDEX_DEFAULT_FLAGS == {Index_StoreFieldFlags}

\* tolower, on the letters of the names of fields and of indexes
ToLower(c) ==
  CASE c = "T" -> "t"
    [] c = "N" -> "n"
    [] c = "A" -> "a"
    [] c = "B" -> "b"
    [] OTHER -> c

\* strncasecmp(a, b, len) = 0 for names of the same length
SameNameNoCase(a, b) == ToLower(a) = ToLower(b)

\* the names are compared as they are written
GetField_CaseSensitive(sp, name) ==
  LET hits == {i \in 1..sp.numFields : sp.fields[i].name = name}
  IN  IF hits = {} THEN 0 ELSE CHOOSE i \in hits : \A j \in hits : i <= j

\* the place of the first field of that name, 0 when there is none
IndexSpec_GetField(sp, name) ==
  LET hits == {i \in 1..sp.numFields : SameNameNoCase(sp.fields[i].name, name)}
  IN  IF hits = {} THEN 0 ELSE CHOOSE i \in hits : \A j \in hits : i <= j

FIELD_IS(fs, t) == t \in fs.types

FieldSpec_IsIndexable(fs) == FieldSpec_NotIndexable \notin fs.options

FieldSpec_IsSortable(fs) == FieldSpec_Sortable \in fs.options

FieldSpec_IsPhonetics(fs) == FieldSpec_Phonetics \in fs.options

\* an index without fields
NewFieldsSpec ==
  [numFields |-> 0, fields |-> << >>, sortables |-> [len |-> 0, fields |-> << >>],
   flags |-> INDEX_DEFAULT_FLAGS, spcache |-> 0, created |-> FALSE]

\* the array is cut to the fields in use and the new field is put behind them
IndexSpec_CreateField(sp, name) ==
  [sp EXCEPT !.fields = Append(SubSeq(@, 1, sp.numFields),
                               [name |-> name, index |-> sp.numFields, types |-> {},
                                options |-> {}, ftId |-> -1, ftWeight |-> 1,
                                sortIdx |-> -1]),
             !.numFields = @ + 1]

\* AC_GetDouble on the token tok
IsDouble(tok) == tok \in {"1", "2"}

AsDouble(tok) == IF tok = "1" THEN 1 ELSE 2

checkPhoneticAlgorithmAndLang(matcher) == matcher \in {"dm:en", "dm:pt", "dm:fr", "dm:es"}

\* what a parser hands back: the field, the arguments left, and the error
Parsed(ok, fs, ac, code, msg) ==
  [ok |-> ok, fs |-> fs, ac |-> ac, code |-> code, msg |-> msg]

RECURSIVE parseTextField(_, _)
parseTextField(fs, ac) ==
  IF ac = << >> THEN Parsed(TRUE, fs, ac, QUERY_OK, "")
  ELSE IF Head(ac) = "NOSTEM"
    THEN parseTextField([fs EXCEPT !.options = @ \cup {FieldSpec_NoStemming}], Tail(ac))
  ELSE IF Head(ac) = "WEIGHT"
    THEN IF Tail(ac) = << >> \/ ~IsDouble(Head(Tail(ac)))
           THEN Parsed(FALSE, fs, Tail(ac), QUERY_EPARSEARGS, "Bad arguments for weight")
           ELSE parseTextField([fs EXCEPT !.ftWeight = AsDouble(Head(Tail(ac)))],
                               Tail(Tail(ac)))
  ELSE IF Head(ac) = "PHONETIC"
    THEN IF Tail(ac) = << >>
           THEN Parsed(FALSE, fs, Tail(ac), QUERY_EPARSEARGS,
                       "PHONETIC requires an argument")
           ELSE IF ~checkPhoneticAlgorithmAndLang(Head(Tail(ac)))
             THEN Parsed(FALSE, fs, Tail(Tail(ac)), QUERY_EINVAL,
                         "Matcher Format: <2 chars algorithm>:<2 chars language>")
             ELSE parseTextField([fs EXCEPT !.options = @ \cup {FieldSpec_Phonetics}],
                                 Tail(Tail(ac)))
  ELSE Parsed(TRUE, fs, ac, QUERY_OK, "")

\* spec.c:318-328
RECURSIVE parseFieldOptions(_, _)
parseFieldOptions(fs, ac) ==
  IF ac = << >> THEN Parsed(TRUE, fs, ac, QUERY_OK, "")
  ELSE IF Head(ac) = "SORTABLE"
    THEN parseFieldOptions([fs EXCEPT !.options = @ \cup {FieldSpec_Sortable}], Tail(ac))
  ELSE IF Head(ac) = "NOINDEX"
    THEN parseFieldOptions([fs EXCEPT !.options = @ \cup {FieldSpec_NotIndexable}],
                           Tail(ac))
  ELSE Parsed(TRUE, fs, ac, QUERY_OK, "")

parseFieldSpec(ac, fs) ==
  IF ac = << >>
    THEN Parsed(FALSE, fs, ac, QUERY_EPARSEARGS, "Field does not have a type")
  ELSE IF Head(ac) = "TEXT"
    THEN LET t == parseTextField([fs EXCEPT !.types = @ \cup {INDEXFLD_T_FULLTEXT}],
                                 Tail(ac))
         IN  IF t.ok THEN parseFieldOptions(t.fs, t.ac) ELSE t
  ELSE IF Head(ac) = "NUMERIC"
    THEN parseFieldOptions([fs EXCEPT !.types = @ \cup {INDEXFLD_T_NUMERIC}], Tail(ac))
  ELSE IF Head(ac) = "GEO"
    THEN parseFieldOptions([fs EXCEPT !.types = @ \cup {INDEXFLD_T_GEO}], Tail(ac))
  ELSE IF Head(ac) = "TAG"
    THEN LET tag == [fs EXCEPT !.types = @ \cup {INDEXFLD_T_TAG}] IN
         IF Tail(ac) # << >> /\ Head(Tail(ac)) = "SEPARATOR"
           THEN IF Tail(Tail(ac)) = << >>
                  THEN Parsed(FALSE, tag, Tail(Tail(ac)), QUERY_EPARSEARGS,
                              "SEPARATOR requires an argument")
                  ELSE IF Head(Tail(Tail(ac))) \notin {",", ";"}
                    THEN Parsed(FALSE, tag, Tail(Tail(Tail(ac))), QUERY_EPARSEARGS,
                                "Tag separator must be a single character")
                    ELSE parseFieldOptions(tag, Tail(Tail(Tail(ac))))
           ELSE parseFieldOptions(tag, Tail(ac))
  ELSE Parsed(FALSE, fs, ac, QUERY_EPARSEARGS, "Invalid field type for field")

\* the ids that count: those of the full-text fields that have one
TextIds(sp) ==
  {sp.fields[i].ftId : i \in {j \in 1..sp.numFields :
                                /\ FIELD_IS(sp.fields[j], INDEXFLD_T_FULLTEXT)
                                /\ sp.fields[j].ftId # -1}}

Max(S) == CHOOSE x \in S : \A y \in S : y <= x

\* the limit is looked at after the id is handed out
IndexSpec_CreateTextId_NoLimit(sp) ==
  LET maxId == IF TextIds(sp) = {} THEN -1 ELSE Max(TextIds(sp))
  IN  maxId + 1

IndexSpec_CreateTextId(sp) ==
  LET maxId == IF TextIds(sp) = {} THEN -1 ELSE Max(TextIds(sp))
  IN  IF maxId + 1 >= SPEC_MAX_FIELD_ID THEN -1 ELSE maxId + 1

\* the entry is written behind the entries in use
RSSortingTable_Add(tbl, name, types) ==
  [len |-> tbl.len + 1,
   fields |-> Append(SubSeq(tbl.fields, 1, tbl.len), [name |-> name, type |-> types])]

\* what IndexSpec_AddFieldsInternal hands back
Added(rc, sp, code, msg) == [rc |-> rc, sp |-> sp, code |-> code, msg |-> msg]

\* a slot of the array after FieldSpec_Cleanup
CleanedField ==
  [name |-> "", index |-> 0, types |-> {}, options |-> {}, ftId |-> -1, ftWeight |-> 1,
   sortIdx |-> -1]

\* FieldSpec_Cleanup on the slots from the place from on
CleanupFrom(fields, from) ==
  [i \in 1..Len(fields) |-> IF i >= from THEN CleanedField ELSE fields[i]]

\* the fields the call has added stay
Reset_KeepsAdded(sp, fsSet, prevNumFields, prevSortLen) ==
  [sp EXCEPT !.numFields = IF fsSet THEN @ - 1 ELSE @,
             !.fields = CleanupFrom(@, IF fsSet THEN sp.numFields ELSE sp.numFields + 1)]

\* spec.c:426-441; fsSet: the field at work was created and not yet added
Reset(sp, fsSet, prevNumFields, prevSortLen) ==
  [sp EXCEPT !.numFields = prevNumFields,
             !.fields = CleanupFrom(@, prevNumFields + 1),
             !.sortables.len = prevSortLen]

\* spec.c:386-407 for the field at the place at; wide: the id needs the wide encoding
NeedsWide(sp, textId) ==
  textId >= SPEC_WIDEFIELD_THRESHOLD /\ Index_StoreFieldFlags \in sp.flags

IsIndexedText(fs) == FIELD_IS(fs, INDEXFLD_T_FULLTEXT) /\ FieldSpec_IsIndexable(fs)

\* the error of spec.c:386-413 for the field at the end of the array, "" for none
FieldError(sp, isNew) ==
  IF IsIndexedText(sp.fields[sp.numFields]) /\ IndexSpec_CreateTextId(sp) < 0
    THEN "Too many TEXT fields in schema"
  ELSE IF /\ IsIndexedText(sp.fields[sp.numFields])
          /\ NeedsWide(sp, IndexSpec_CreateTextId(sp))
          /\ ~isNew
          /\ Index_WideSchema \notin sp.flags
    THEN "Cannot add more fields"
  ELSE IF /\ FieldSpec_IsSortable(sp.fields[sp.numFields])
          /\ FieldSpec_Dynamic \in sp.fields[sp.numFields].options
    THEN "Cannot set dynamic field to sortable"
  ELSE ""

ErrorCode(msg) ==
  IF msg = "Cannot set dynamic field to sortable" THEN QUERY_EBADOPTION ELSE QUERY_ELIMIT

\* spec.c:386-407: the text id, and the wide flag of a new index
SetTextId(sp, isNew) ==
  IF IsIndexedText(sp.fields[sp.numFields])
    THEN [sp EXCEPT !.fields[sp.numFields].ftId = IndexSpec_CreateTextId(sp),
                    !.flags = IF NeedsWide(sp, IndexSpec_CreateTextId(sp)) /\ isNew
                                THEN @ \cup {Index_WideSchema} ELSE @]
    ELSE sp

\* spec.c:409-418
SetSortIdx(sp) ==
  IF FieldSpec_IsSortable(sp.fields[sp.numFields])
    THEN [sp EXCEPT !.fields[sp.numFields].sortIdx = sp.sortables.len,
                    !.sortables = RSSortingTable_Add(@, sp.fields[sp.numFields].name,
                                                     sp.fields[sp.numFields].types)]
    ELSE [sp EXCEPT !.fields[sp.numFields].sortIdx = -1]

\* spec.c:419-421
SetPhonetic(sp) ==
  IF FieldSpec_IsPhonetics(sp.fields[sp.numFields])
    THEN [sp EXCEPT !.flags = @ \cup {Index_HasPhonetic}]
    ELSE sp

\* the loop of spec.c:372-423
RECURSIVE AddFieldsLoop(_, _, _, _, _)

\* spec.c:386-422 with msg the error of the field at the end of the array
AddChecked(sp, msg, ac, prevNumFields, prevSortLen, isNew) ==
  IF msg # ""
    THEN Added(0, Reset(sp, TRUE, prevNumFields, prevSortLen), ErrorCode(msg), msg)
    ELSE AddFieldsLoop(SetPhonetic(SetSortIdx(SetTextId(sp, isNew))), ac, prevNumFields,
                       prevSortLen, isNew)

\* spec.c:382-384 with p what parseFieldSpec handed back
AddParsed(sp, p, prevNumFields, prevSortLen, isNew) ==
  IF ~p.ok
    THEN Added(0, Reset(sp, TRUE, prevNumFields, prevSortLen), p.code, p.msg)
    ELSE AddChecked([sp EXCEPT !.fields[sp.numFields] = p.fs],
                    FieldError([sp EXCEPT !.fields[sp.numFields] = p.fs], isNew),
                    p.ac, prevNumFields, prevSortLen, isNew)

\* spec.c:380-384: the field is created and its definition is parsed
AddCreated(sp, ac, prevNumFields, prevSortLen, isNew) ==
  AddParsed(sp, parseFieldSpec(ac, sp.fields[sp.numFields]), prevNumFields, prevSortLen,
            isNew)

AddFieldsLoop(sp, ac, prevNumFields, prevSortLen, isNew) ==
  IF ac = << >> THEN Added(1, sp, QUERY_OK, "")
  ELSE IF IndexSpec_GetField(sp, Head(ac)) # 0
    THEN Added(0, Reset(sp, FALSE, prevNumFields, prevSortLen), QUERY_EINVAL,
               "Duplicate field in schema")
  ELSE AddCreated(IndexSpec_CreateField(sp, Head(ac)), Tail(ac), prevNumFields,
                  prevSortLen, isNew)

\* the fields of the index as a cache holds them
IndexSpec_BuildSpecCache(sp) ==
  [nfields |-> sp.numFields, fields |-> SubSeq(sp.fields, 1, sp.numFields),
   refcount |-> 1, freed |-> FALSE, holders |-> 0]

\* the cache is freed at once
CacheDecref_FreesAtOnce(cs, c) ==
  [cs EXCEPT ![c].refcount = @ - 1, ![c].freed = TRUE]

\* spec.c:594-603 on the cache c of the caches cs
CacheDecref(cs, c) ==
  [cs EXCEPT ![c].refcount = @ - 1, ![c].freed = (cs[c].refcount - 1 = 0)]

\* spec.c:364-367 and 716-719: the index gives up its cache
DropSpcache(sp, cs) ==
  IF sp.spcache # 0
    THEN [sp |-> [sp EXCEPT !.spcache = 0], caches |-> CacheDecref(cs, sp.spcache)]
    ELSE [sp |-> sp, caches |-> cs]

IndexSpec_AddFieldsInternal(sp, cs, ac, isNew) ==
  LET d == DropSpcache(sp, cs)
      a == AddFieldsLoop(d.sp, ac, d.sp.numFields, d.sp.sortables.len, isNew)
  IN  [rc |-> a.rc, sp |-> a.sp, caches |-> d.caches, code |-> a.code, msg |-> a.msg]

\* the definitions of fields a call may list
FieldDefs ==
  { <<"t", "TEXT">>, <<"T", "TEXT">>, <<"u", "TEXT", "PHONETIC", "dm:en">>,
    <<"x", "TEXT", "WEIGHT", "2">>, <<"y", "TEXT", "NOINDEX", "SORTABLE">>,
    <<"n", "NUMERIC", "SORTABLE">>, <<"g", "GEOX">>, <<"w">> }

\* the arguments of a call: no definition, one, or two, one after the other
FieldArgs == {<< >>} \cup FieldDefs \cup {a \o d : a \in FieldDefs, d \in FieldDefs}

NoFev == [name |-> "none", rc |-> 1, code |-> QUERY_OK, msg |-> ""]

InitFd ==
  /\ fsp = NewFieldsSpec
  /\ caches = << >>
  /\ fev = NoFev

\* FT.CREATE: IndexSpec_Parse comes to SCHEMA; wide: MAXTEXTFIELDS was given.
\* The object of a creation that fails is freed.
IndexSpec_ParseSchema(wide, args) ==
  /\ ~fsp.created
  /\ \E r \in {IndexSpec_AddFieldsInternal(
                  [NewFieldsSpec EXCEPT
                     !.flags = IF wide THEN @ \cup {Index_WideSchema} ELSE @],
                  caches, args, TRUE)} :
         /\ r.sp.numFields <= MaxFields
         /\ fsp' = IF r.rc = 1 THEN [r.sp EXCEPT !.created = TRUE] ELSE NewFieldsSpec
         /\ caches' = r.caches
         /\ fev' = [NoFev EXCEPT !.name = "create", !.rc = r.rc, !.code = r.code,
                                 !.msg = r.msg]
  /\ UNCHANGED <<dtVars, ixVars, rlVars, dsVars, lcVars>>

\* FT.ALTER ... SCHEMA ADD
IndexSpec_AddFields(args) ==
  /\ fsp.created
  /\ \E r \in {IndexSpec_AddFieldsInternal(fsp, caches, args, FALSE)} :
         /\ r.sp.numFields <= MaxFields
         /\ fsp' = r.sp
         /\ caches' = r.caches
         /\ fev' = [NoFev EXCEPT !.name = "add", !.rc = r.rc, !.code = r.code,
                                 !.msg = r.msg]
  /\ UNCHANGED <<dtVars, ixVars, rlVars, dsVars, lcVars>>

\* a caller asks for the cache and holds what it gets
IndexSpec_GetSpecCache ==
  /\ fsp.created
  /\ LET build == fsp.spcache = 0
         c     == IF build THEN Len(caches) + 1 ELSE fsp.spcache
         cs    == IF build THEN Append(caches, IndexSpec_BuildSpecCache(fsp))
                           ELSE caches
     IN  /\ c <= MaxCaches
         /\ cs[c].holders < MaxHolders
         /\ fsp' = [fsp EXCEPT !.spcache = c]
         /\ caches' = [cs EXCEPT ![c].refcount = @ + 1, ![c].holders = @ + 1]
         /\ fev' = [NoFev EXCEPT !.name = "getCache"]
  /\ UNCHANGED <<dtVars, ixVars, rlVars, dsVars, lcVars>>

\* a caller gives back a cache it holds
IndexSpecCache_Decref(c) ==
  /\ c \in 1..Len(caches)
  /\ caches[c].holders > 0
  /\ caches' = [CacheDecref(caches, c) EXCEPT ![c].holders = @ - 1]
  /\ fev' = [NoFev EXCEPT !.name = "decref"]
  /\ UNCHANGED fsp
  /\ UNCHANGED <<dtVars, ixVars, rlVars, dsVars, lcVars>>

\* the index is freed: it gives up its cache (spec.c:716-719)
IndexSpec_FreeInternals_Spcache ==
  /\ fsp.created
  /\ LET d == DropSpcache(fsp, caches)
     IN  /\ fsp' = NewFieldsSpec
         /\ caches' = d.caches
         /\ fev' = [NoFev EXCEPT !.name = "free"]
  /\ UNCHANGED <<dtVars, ixVars, rlVars, dsVars, lcVars>>

NextFd ==
  \/ \E wide \in BOOLEAN, args \in FieldArgs : IndexSpec_ParseSchema(wide, args)
  \/ \E args \in FieldArgs : IndexSpec_AddFields(args)
  \/ IndexSpec_FreeInternals_Spcache

\* the calls that add fields while callers hold caches
CacheArgs == { <<"n", "NUMERIC">>, <<"t", "TEXT">>, <<"g", "GEOX">> }

NextCache ==
  \/ IndexSpec_ParseSchema(FALSE, <<"t", "TEXT">>)
  \/ \E args \in CacheArgs : IndexSpec_AddFields(args)
  \/ IndexSpec_GetSpecCache
  \/ \E c \in 1..MaxCaches : IndexSpecCache_Decref(c)
  \/ IndexSpec_FreeInternals_Spcache

----------------------------------------------------------------------------
(* Specifications *)

InitIx ==
  /\ specs = << >>
  /\ specDict = dictCreate
  /\ spec_unique_ids = 1
  /\ ScemaPrefixes_g = [p \in {} |-> 0]
  /\ SchemaRules_g = << >>
  /\ lastMatch = NoMatch
  /\ lastCreate = NoCreate

InitLc ==
  /\ cleanPool = << >>
  /\ dropping = 0
  /\ freed = {}

Init == InitDT /\ InitIx /\ InitRl /\ InitDs /\ InitLc /\ InitFd

\* the calls on one document table
SpecDT == Init /\ [][NextDT]_vars

Next ==
  \/ \E args \in CreateArgs \cup {BadArgs(n) : n \in IndexNames} :
       IndexSpec_CreateNew(args)
  \/ \E key \in Keys, age \in AgeVals : Match(key, age)

\* the creation of indexes and the matching of keys
Spec == Init /\ [][Next]_vars

\* indexes on the prefix "x:" whose filters differ in what they do with a
\* field that is a string
CreateArgsEval ==
  [name : {Str_A, Str_B},
   prefixGiven : {TRUE},
   prefixes : {<<Str_x>>},
   filter : FilterExprs \cup {ExistsExpr},
   async : {FALSE},
   bad : {FALSE},
   temporary : {FALSE},
   schema : {TRUE}]

NextEval ==
  \/ \E args \in CreateArgsEval : IndexSpec_CreateNew(args)
  \/ \E key \in Keys, age \in AgeVals : Match(key, age)

\* matching under filters that fail to evaluate
SpecEval == Init /\ [][NextEval]_vars

\* the rule registry, saved and loaded
SpecRl == Init /\ [][NextRl]_vars

\* the fields of one index, and the caches of its fields
SpecFd == Init /\ [][NextFd]_vars

\* the caches of the fields of one index
SpecCache == Init /\ [][NextCache]_vars

----------------------------------------------------------------------------
(* Properties of the document table *)

\* C1: once put(k) has returned id i, getId(k) returns i until delete(k) is
\* called, and after delete(k) with no later put(k) getId(k) returns 0.
C1_GetIdFollowsPut ==
  /\ \A k \in DocKeys : DocTable_GetId(dt, k) = assigned[k]
  /\ op.name = "getId" => op.ret = assigned[op.key]

\* k was put, deleted and put again, and getId(k) returned the second id
C1_Witness ==
  /\ op.name = "getId" /\ op.key = "k"
  /\ op.ret > 1 /\ op.ret \in issued
  /\ 1 \in deleted
  /\ \E k2 \in DocKeys : assigned[k2] = 0 /\ putMeta[k2] = NoMd /\ k2 # "k"

C3_IdsIncreaseNoReuse ==
  [][/\ (op'.name = "put" /\ assigned[op'.key] = 0) =>
          /\ op'.ret = dt.maxDocId + 1
          /\ op'.ret # 0
          /\ op'.ret \notin issued
          /\ \A i \in issued : i < op'.ret
     /\ \A k1, k2 \in DocKeys :
          (k1 # k2 /\ assigned'[k1] # 0) => assigned'[k1] # assigned'[k2]]_vars

\* a new key is put after the holder of id 1 was deleted, and gets id 3
C3_Witness ==
  /\ op.name = "put" /\ op.fresh /\ op.ret = 3
  /\ 1 \in deleted
  /\ dt.size = 2

\* C4: get(id) returns nothing exactly when id is 0, id is above maxDocId or
\* the entry was deleted; for the id of a present key it returns the metadata
\* the key was put with.
C4_GetNotFound ==
  /\ \A i \in 0..(MaxDocId + 1) :
       (DocTable_Get(dt, i) = NoMd) <=> (i = 0 \/ i > dt.maxDocId \/ i \in deleted)
  /\ \A k \in DocKeys :
       assigned[k] # 0 => /\ DocTable_Get(dt, assigned[k]) = putMeta[k]
                          /\ DocTable_GetKey(dt, assigned[k]) = k
  /\ op.name = "get" => (op.ret = NoMd <=> (op.id = 0 \/ op.id > dt.maxDocId
                                             \/ op.id \in deleted))

\* get of a deleted id that lies below maxDocId
C4_Witness ==
  /\ op.name = "get" /\ op.ret = NoMd
  /\ op.id \in deleted /\ op.id < dt.maxDocId
  /\ \E k \in DocKeys : assigned[k] > op.id

\* C5: delete(k) returns true and removes k when k is present, returns false
\* and changes nothing when k is absent; the id and the metadata of every
\* other key stay as they were.
C5_DeleteFrame ==
  [][op'.name = "delete" =>
       /\ IF assigned[op'.key] # 0
            THEN op'.ret = TRUE /\ DocTable_GetId(dt', op'.key) = 0
            ELSE op'.ret = FALSE /\ dt' = dt
       /\ \A k2 \in DocKeys \ {op'.key} :
            /\ DocTable_GetId(dt', k2) = DocTable_GetId(dt, k2)
            /\ DocTable_Get(dt', DocTable_GetId(dt', k2))
                 = DocTable_Get(dt, DocTable_GetId(dt, k2))]_vars

\* put(k) = 1, put(k2) = 2, delete(k): getId(k) = 0 and getId(k2) = 2
C5_Witness ==
  /\ op.name = "delete" /\ op.key = "k" /\ op.ret = TRUE
  /\ deleted = {1} /\ issued = {1, 2}
  /\ DocTable_GetId(dt, "k") = 0
  /\ DocTable_GetId(dt, "k2") = 2

\* C6: the count of live documents is at most the highest id handed out.
C6_SizeAtMostMaxId == dt.size <= dt.maxDocId

\* puts and a delete have happened, a repeated put among them
C6_Witness ==
  /\ dt.size > 0 /\ dt.size < dt.maxDocId
  /\ op.name = "put" /\ ~op.fresh

----------------------------------------------------------------------------
(* Properties of index creation and of matching *)

LiveSpecs == 1..Len(specs)

InRes(res, s) == \E i \in 1..Len(res) : res[i].val = s

ResultSet(res) == {res[i].val : i \in 1..Len(res)}

PrefixMatches(s, key) == \E p \in Range(specs[s].rule.prefixes) : IsPrefix(p, key)

FilterHolds(s, age) ==
  \/ specs[s].rule.filter_exp = NoExpr
  \/ /\ EvalCtx_EvalExpr(specs[s].rule.filter_exp, age).rc = EXPR_EVAL_OK
     /\ EvalCtx_EvalExpr(specs[s].rule.filter_exp, age).res

\* the indexes the prefix lookup hands to the matching for key
Candidates(key) ==
  UNION {Range(n.index_specs) : n \in Range(TrieMap_FindPrefixes(ScemaPrefixes_g, key))}

\* C7: match(key) holds an index if and only if one of the prefixes of the
\* index is a prefix of key and the rule of the index has no filter or its
\* filter is true on the fields of key.
C7_MatchIffPrefixAndFilter ==
  lastMatch.called =>
    \A s \in LiveSpecs :
      InRes(lastMatch.res, s) <=>
        (PrefixMatches(s, lastMatch.key) /\ FilterHolds(s, lastMatch.age))

\* C8: match(key) holds at most one entry per index, also when several
\* prefixes of the index are prefixes of key and when the index is reached
\* through a prefix and through its filter.
C8_OneEntryPerIndex ==
  lastMatch.called =>
    \A i, j \in 1..Len(lastMatch.res) :
      i # j => /\ lastMatch.res[i].val # lastMatch.res[j].val
               /\ lastMatch.res[i].key # lastMatch.res[j].key

\* an index on "" and on "x:" with a filter that holds, matched for "x:1"
C8_Witness ==
  /\ lastMatch.called
  /\ lastMatch.key = <<"x", ":", "1">>
  /\ \E s \in LiveSpecs :
       /\ specs[s].rule.prefixes = <<EmptyStr, Str_x>>
       /\ specs[s].rule.filter_exp # NoExpr
       /\ EvalCtx_EvalExpr(specs[s].rule.filter_exp, lastMatch.age).res
       /\ Cardinality({i \in 1..Len(lastMatch.res) : lastMatch.res[i].val = s}) = 1

\* C9: the prefix lookup returns the nodes of the registered prefixes that
\* are prefixes of the key and no other node; an index registered under ""
\* is a candidate for every key; with A on "x:" and B on "" and no filter,
\* the key "x:1" matches A and B and nothing else.
C9_PrefixLookup ==
  /\ \A k \in Keys :
       {n.prefix : n \in Range(TrieMap_FindPrefixes(ScemaPrefixes_g, k))}
         = {p \in DOMAIN ScemaPrefixes_g : IsPrefix(p, k)}
  /\ \A s \in LiveSpecs :
       EmptyStr \in Range(specs[s].rule.prefixes) =>
         \A k \in Keys : s \in Candidates(k)
  /\ \A a, b \in LiveSpecs :
       ( /\ lastMatch.called
         /\ lastMatch.key = <<"x", ":", "1">>
         /\ Len(specs) = 2
         /\ specs[a].name = Str_A /\ specs[a].rule.prefixes = <<Str_x>>
         /\ specs[b].name = Str_B /\ specs[b].rule.prefixes = <<EmptyStr>>
         /\ specs[a].rule.filter_exp = NoExpr
         /\ specs[b].rule.filter_exp = NoExpr )
       => ResultSet(lastMatch.res) = {a, b}

\* A on "x:", B on "", no filter, and "x:1" was matched
C9_Witness ==
  /\ lastMatch.called
  /\ lastMatch.key = <<"x", ":", "1">>
  /\ Len(specs) = 2
  /\ specs[1].name = Str_A /\ specs[1].rule.prefixes = <<Str_x>>
  /\ specs[2].name = Str_B /\ specs[2].rule.prefixes = <<EmptyStr>>
  /\ specs[2].args.prefixGiven
  /\ specs[1].rule.filter_exp = NoExpr
  /\ specs[2].rule.filter_exp = NoExpr
  /\ ResultSet(lastMatch.res) = {1, 2}

\* the nodes of the prefix trie that hold the index s
RegisteredUnder(s) ==
  {p \in DOMAIN ScemaPrefixes_g : s \in Range(ScemaPrefixes_g[p].index_specs)}

\* C10 as stated: an index created without PREFIX has the one prefix "", an
\* index created with PREFIX n p1..pn has the prefixes p1..pn and no other.
C10_PrefixesAsGiven ==
  \A s \in LiveSpecs :
    IF specs[s].args.prefixGiven
      THEN /\ specs[s].rule.prefixes = specs[s].args.prefixes
           /\ RegisteredUnder(s) = Range(specs[s].args.prefixes)
      ELSE /\ specs[s].rule.prefixes = <<EmptyStr>>
           /\ \A k \in Keys : s \in Candidates(k)

\* C10 as amended: an index created without PREFIX, or with PREFIX 0, has the
\* one prefix "" and is a candidate for every key; an index created with
\* PREFIX n p1..pn, n >= 1, has the prefixes p1..pn and no other.
C10_PrefixesAsGivenOrDefault ==
  \A s \in LiveSpecs :
    IF specs[s].args.prefixGiven /\ Len(specs[s].args.prefixes) >= 1
      THEN /\ specs[s].rule.prefixes = specs[s].args.prefixes
           /\ RegisteredUnder(s) = Range(specs[s].args.prefixes)
      ELSE /\ specs[s].rule.prefixes = <<EmptyStr>>
           /\ RegisteredUnder(s) = {EmptyStr}
           /\ \A k \in Keys : s \in Candidates(k)

\* an index created with PREFIX 1 "x:", one with PREFIX 0, and a third
\* without PREFIX
C10_Witness ==
  \E s, t \in LiveSpecs :
    /\ specs[s].args.prefixGiven /\ specs[s].args.prefixes = <<Str_x>>
    /\ RegisteredUnder(s) = {Str_x}
    /\ ~specs[t].args.prefixGiven
    /\ RegisteredUnder(t) = {EmptyStr}

----------------------------------------------------------------------------
(* Evaluation errors, and creation under a name that is taken *)

\* the result of the loop over the prefix nodes, before any filter is looked at
PrefixPhase(key) ==
  AddPrefixSpecs(dictCreate, TrieMap_FindPrefixes(ScemaPrefixes_g, key), 1)

\* C11: a rule whose filter fails to evaluate adds its index no more than a
\* rule whose filter is false does (the index is in the result only when the
\* prefix lookup put it there); the call returns its result all the same, and
\* every rule whose filter is true, also one after the failing rule, has its
\* index in the result.
C11_EvalErrorIsNoMatch ==
  lastMatch.called =>
    \A i \in 1..Len(SchemaRules_g) :
      LET rule == SchemaRules_g[i]
          r    == EvalCtx_EvalExpr(rule.filter_exp, lastMatch.age)
      IN  rule.filter_exp # NoExpr =>
            /\ (r.rc = EXPR_EVAL_ERR \/ ~r.res) =>
                  (InRes(lastMatch.res, rule.spec)
                     <=> InRes(PrefixPhase(lastMatch.key), rule.spec))
            /\ (r.rc = EXPR_EVAL_OK /\ r.res) => InRes(lastMatch.res, rule.spec)

\* the filter of the first rule fails on a string, the filter of the second
\* is true of it, and no prefix is a prefix of the key
C11_Witness ==
  /\ lastMatch.called
  /\ lastMatch.key = <<"o", ":", "1">>
  /\ lastMatch.age.t = "str"
  /\ Len(SchemaRules_g) = 2
  /\ EvalCtx_EvalExpr(SchemaRules_g[1].filter_exp, lastMatch.age).rc = EXPR_EVAL_ERR
  /\ SchemaRules_g[2].filter_exp = ExistsExpr
  /\ ResultSet(lastMatch.res) = {2}

\* C20: IndexSpec_CreateNew under a name that is in specDict sets
\* QUERY_EINDEXEXISTS, also when the arguments after the name do not parse,
\* and leaves the indexes, the name dictionary, the rules and the prefixes as
\* they were; under a name that is not in specDict it never sets that code.
C20_CreateExistingRejected ==
  [][lastCreate'.code # "none" =>
       IF dictFind(specDict, lastCreate'.name)
         THEN /\ lastCreate'.code = QUERY_EINDEXEXISTS
              /\ UNCHANGED <<specs, specDict, spec_unique_ids, ScemaPrefixes_g,
                             SchemaRules_g>>
         ELSE lastCreate'.code # QUERY_EINDEXEXISTS]_vars

\* a create whose arguments do not parse, under the name of an index that has
\* a filter and the prefix "x:"
C20_Witness ==
  /\ lastCreate.code = QUERY_EINDEXEXISTS
  /\ lastCreate.bad
  /\ \E s \in LiveSpecs :
       /\ specs[s].name = lastCreate.name
       /\ specs[s].rule.prefixes = <<Str_x>>
       /\ specs[s].rule.filter_exp # NoExpr
       /\ dictFetchValue(specDict, lastCreate.name) = s

----------------------------------------------------------------------------
(* Properties of the persistence of the rule registry *)

\* the registry after the first n rules of l were added to rs
RECURSIVE AddedUpTo(_, _, _)
AddedUpTo(rs, l, n) ==
  IF n = 0 THEN rs
  ELSE SchemaRules_AddArgs(AddedUpTo(rs, l, n - 1),
                           l[n].index, l[n].name, l[n].rawrule).rules

\* the places of l that hold a rule whose arguments do not parse
BadPlaces(l) == {j \in 1..Len(l) : ~SchemaRule_ParseArgs(l[j].rawrule, 1)}

FirstBad(l) == CHOOSE j \in BadPlaces(l) : \A k \in BadPlaces(l) : j <= k

\* C17: loading, into an empty registry, the stream that rulesAuxSave wrote
\* gives the registry it was written from: the same rules in the same order,
\* each with its index name, rule name and raw arguments, none lost and none
\* twice; the load returns REDISMODULE_OK and reads the whole stream.
C17_SaveLoadRoundTrip ==
  ( /\ pev.name = "load"
    /\ pev.before = << >>
    /\ pev.when = REDISMODULE_AUX_BEFORE_RDB
    /\ pev.encver <= RULES_CURRENT_VERSION
    /\ rdb.when = REDISMODULE_AUX_BEFORE_RDB
    /\ pev.stream = rdb.stream )
  => /\ pev.ret = REDISMODULE_OK
     /\ rules = rdb.from
     /\ pev.nread = Len(rdb.stream)

\* the rule of B was added before the rule of A, with other arguments; the
\* registry was saved, the process started anew and the stream was loaded
C17_Witness ==
  /\ pev.name = "load"
  /\ pev.before = << >>
  /\ pev.stream = rdb.stream
  /\ rdb.when = REDISMODULE_AUX_BEFORE_RDB
  /\ Len(rdb.from) = 2
  /\ rdb.from[1].index = "B" /\ rdb.from[1].rawrule = << >>
  /\ rdb.from[2].index = "A" /\ rdb.from[2].rawrule = <<"PREFIX", "1", "x:">>
  /\ rules = rdb.from

\* C18: when a rule of the stream does not parse, rulesAuxLoad returns
\* REDISMODULE_ERR at the first such rule: the rules before it are added, the
\* rule itself is not, and nothing after it is read or added.
C18_LoadStopsAtBadRule ==
  ( /\ pev.name = "load"
    /\ pev.when = REDISMODULE_AUX_BEFORE_RDB
    /\ pev.encver <= RULES_CURRENT_VERSION )
  => \A l \in RuleLists(MaxRules) :
       ( /\ pev.stream = rulesAuxSave(l, REDISMODULE_AUX_BEFORE_RDB)
         /\ BadPlaces(l) # {} )
       => /\ pev.ret = REDISMODULE_ERR
          /\ rules = AddedUpTo(pev.before, l, FirstBad(l) - 1)
          /\ pev.nread = Len(rulesAuxSave(SubSeq(l, 1, FirstBad(l)),
                                          REDISMODULE_AUX_BEFORE_RDB))

\* the first rule of the stream does not parse and the second does: the load
\* failed with the second rule unread and the registry as it was
C18_Witness ==
  /\ pev.name = "load"
  /\ pev.ret = REDISMODULE_ERR
  /\ pev.encver = RULES_CURRENT_VERSION
  /\ pev.stream = rulesAuxSave(
       << [index |-> "A", name |-> "r", rawrule |-> <<"PREFIX", "2", "x:">>],
          [index |-> "B", name |-> "r", rawrule |-> <<"PREFIX", "1", "x:">>] >>,
       REDISMODULE_AUX_BEFORE_RDB)
  /\ pev.nread < Len(pev.stream)
  /\ rules = pev.before
  /\ \A i \in 1..Len(rules) : rules[i].index # "B"

\* C19: rulesAuxLoad called with an encoding version above
\* RULES_CURRENT_VERSION returns REDISMODULE_ERR, reads nothing and leaves the
\* registry as it was, before and after the RDB alike.
C19_NewerVersionRejected ==
  (pev.name = "load" /\ pev.encver > RULES_CURRENT_VERSION)
  => /\ pev.ret = REDISMODULE_ERR
     /\ pev.nread = 0
     /\ rules = pev.before

\* a stream of a newer version that holds a rule, handed over after the RDB
\* to a registry that holds another rule
C19_Witness ==
  /\ pev.name = "load"
  /\ pev.encver > RULES_CURRENT_VERSION
  /\ pev.when = REDISMODULE_AUX_AFTER_RDB
  /\ Len(pev.stream) > 1
  /\ Len(pev.before) = 1 /\ pev.before[1].index = "B"
  /\ rules = pev.before
  /\ pev.ret = REDISMODULE_ERR

----------------------------------------------------------------------------
(* SchemaRules_ProcessItem: the dispatch of a key to the indexes it matches *)

\* ids an index's table may allocate before the indexing of keys stops
MaxIndexed == 2

\* items the async queue may hold before submissions stop
MaxQueue == 1

RULES_PROCESS_F_NOREINDEX == "RULES_PROCESS_F_NOREINDEX"
RULES_PROCESS_F_ASYNC == "RULES_PROCESS_F_ASYNC"

\* any bit of flags that SchemaRules_ProcessItem does not test
RULES_PROCESS_F_OTHER == "RULES_PROCESS_F_OTHER"

ProcessFlags ==
  SUBSET {RULES_PROCESS_F_NOREINDEX, RULES_PROCESS_F_ASYNC}
  \cup {{RULES_PROCESS_F_OTHER}}

\* how the indexing of one document ends: it is indexed, the hash has none of
\* the fields of the schema, the document cannot be loaded for another
\* reason, ACTX_Index leaves an error in the status of the context
QUERY_ENOIDXFIELDS == "QUERY_ENOIDXFIELDS"
IndexOutcomes == {"indexed", QUERY_ENOIDXFIELDS, "load error", "index error"}

\* the key the tests of dispatch are made with: "x:1"
DsKeys == {<<"x", ":", "1">>}

\* an index on "x:" with a filter, indexed inline, and an index on every key,
\* indexed through the queue
CreateArgsDs ==
  { [name |-> Str_A, prefixGiven |-> TRUE, prefixes |-> <<Str_x>>,
     filter |-> [field |-> "age", cmp |-> ">=", num |-> 18],
     async |-> FALSE, bad |-> FALSE, temporary |-> FALSE, schema |-> TRUE],
    [name |-> Str_B, prefixGiven |-> FALSE, prefixes |-> << >>,
     filter |-> NoExpr, async |-> TRUE, bad |-> FALSE, temporary |-> FALSE,
     schema |-> TRUE] }

\* the names of the indexes whose rule matches key: a prefix of the rule is a
\* prefix of key and the rule has no filter or its filter is true
SchemaRules_Check(key, age) ==
  LET all  == [s \in 1..Len(specs) |-> s]
      hits == SelectSeq(all, LAMBDA s : /\ specs[s].rule # NoRule
                                        /\ PrefixMatches(s, key)
                                        /\ FilterHolds(s, age))
  IN  [i \in 1..Len(hits) |-> specs[hits[i]].name]

IndexSpec_Load(name) == dictFetchValue(specDict, name)

DocTable_GetByKeyR(t, key) == DocTable_Get(t, DocTable_GetId(t, key))

\* ACTX_Index with DOCUMENT_ADD_REPLACE: the document the table holds for key
\* is dropped and key is put anew
IndexRecord(t, key) ==
  DocTable_Put(DocTable_Delete(t, key).t, key, 1, 0, NULL).t

\* docs: the table of the index afterwards; abort: the assert of line 58 fails
SchemaRules_IndexDocument(t, key, oc) ==
  CASE oc = "indexed" ->
         [docs |-> IndexRecord(t, key), rc |-> REDISMODULE_OK, code |-> QUERY_OK,
          abort |-> FALSE]
    [] oc = QUERY_ENOIDXFIELDS ->
         [docs |-> t, rc |-> REDISMODULE_ERR, code |-> QUERY_ENOIDXFIELDS,
          abort |-> FALSE]
    [] oc = "load error" ->
         [docs |-> t, rc |-> REDISMODULE_ERR, code |-> "load error",
          abort |-> FALSE]
    [] oc = "index error" ->
         [docs |-> t, rc |-> REDISMODULE_ERR, code |-> "index error",
          abort |-> TRUE]

\* the flag RULES_PROCESS_F_NOREINDEX is not looked at
ProcessMatch_NoSkip(st, s, key, flags, oc) ==
  IF RULES_PROCESS_F_ASYNC \in flags \/ Index_Async \in st.specs[s].flags
    THEN [st EXCEPT !.queue = Append(@, [spec |-> s, key |-> key]),
                    !.routes[s] = "async"]
    ELSE LET d  == SchemaRules_IndexDocument(st.specs[s].docs, key, oc)
             rc == IF d.rc # REDISMODULE_OK /\ d.code = QUERY_ENOIDXFIELDS
                     THEN REDISMODULE_OK ELSE d.rc
         IN  IF d.abort \/ rc # REDISMODULE_OK
               THEN [st EXCEPT !.routes[s] = "fatal", !.fatal = TRUE]
               ELSE [st EXCEPT !.specs[s].docs = d.docs,
                               !.routes[s] = IF d.rc = REDISMODULE_OK
                                               THEN "inline" ELSE "noidx"]

\* an index that is async is indexed inline as well as submitted
ProcessMatch_AsyncAlsoInline(st, s, key, flags, oc) ==
  IF /\ RULES_PROCESS_F_NOREINDEX \in flags
     /\ DocTable_GetByKeyR(st.specs[s].docs, key) # NoMd
    THEN [st EXCEPT !.routes[s] = "skip"]
  ELSE IF RULES_PROCESS_F_ASYNC \in flags \/ Index_Async \in st.specs[s].flags
    THEN [st EXCEPT !.queue = Append(@, [spec |-> s, key |-> key]),
                    !.specs[s].docs = IndexRecord(@, key),
                    !.routes[s] = "async"]
    ELSE LET d  == SchemaRules_IndexDocument(st.specs[s].docs, key, oc)
             rc == IF d.rc # REDISMODULE_OK /\ d.code = QUERY_ENOIDXFIELDS
                     THEN REDISMODULE_OK ELSE d.rc
         IN  IF d.abort \/ rc # REDISMODULE_OK
               THEN [st EXCEPT !.routes[s] = "fatal", !.fatal = TRUE]
               ELSE [st EXCEPT !.specs[s].docs = d.docs,
                               !.routes[s] = IF d.rc = REDISMODULE_OK
                                               THEN "inline" ELSE "noidx"]

\* every failure of the indexing is taken for success
ProcessMatch_IgnoresFailure(st, s, key, flags, oc) ==
  IF /\ RULES_PROCESS_F_NOREINDEX \in flags
     /\ DocTable_GetByKeyR(st.specs[s].docs, key) # NoMd
    THEN [st EXCEPT !.routes[s] = "skip"]
  ELSE IF RULES_PROCESS_F_ASYNC \in flags \/ Index_Async \in st.specs[s].flags
    THEN [st EXCEPT !.queue = Append(@, [spec |-> s, key |-> key]),
                    !.routes[s] = "async"]
    ELSE LET d == SchemaRules_IndexDocument(st.specs[s].docs, key, oc)
         IN  [st EXCEPT !.specs[s].docs = d.docs,
                        !.routes[s] = IF d.rc = REDISMODULE_OK
                                        THEN "inline" ELSE "noidx"]

\* the body of the loop of SchemaRules_ProcessItem (rules.c:74-96) for the
\* index s; st holds the indexes, the queue, the path taken for each index
\* and whether an assert has failed
ProcessMatch(st, s, key, flags, oc) ==
  IF /\ RULES_PROCESS_F_NOREINDEX \in flags
     /\ DocTable_GetByKeyR(st.specs[s].docs, key) # NoMd
    THEN [st EXCEPT !.routes[s] = "skip"]
  ELSE IF RULES_PROCESS_F_ASYNC \in flags \/ Index_Async \in st.specs[s].flags
    THEN [st EXCEPT !.queue = Append(@, [spec |-> s, key |-> key]),
                    !.routes[s] = "async"]
    ELSE LET d  == SchemaRules_IndexDocument(st.specs[s].docs, key, oc)
             rc == IF d.rc # REDISMODULE_OK /\ d.code = QUERY_ENOIDXFIELDS
                     THEN REDISMODULE_OK ELSE d.rc
         IN  IF d.abort \/ rc # REDISMODULE_OK
               THEN [st EXCEPT !.routes[s] = "fatal", !.fatal = TRUE]
               ELSE [st EXCEPT !.specs[s].docs = d.docs,
                               !.routes[s] = IF d.rc = REDISMODULE_OK
                                               THEN "inline" ELSE "noidx"]

\* the loop over the results (rules.c:72-97); a failed assert ends the process
RECURSIVE ProcessResults(_, _, _, _, _, _)
ProcessResults(st, results, ii, key, flags, oc) ==
  IF ii > Len(results) \/ st.fatal
    THEN st
    ELSE LET s == IndexSpec_Load(results[ii]) IN
         IF s = 0
           THEN \* assert(spec), rules.c:75
                [st EXCEPT !.fatal = TRUE]
           ELSE ProcessResults(ProcessMatch(st, s, key, flags, oc[s]),
                               results, ii + 1, key, flags, oc)

\* oc: how the indexing of key ends for each index, were it indexed inline;
\* maxQueue: the items the queue has room for
SchemaRules_ProcessItemUpTo(key, age, flags, oc, maxQueue) ==
  \E st \in {ProcessResults([specs |-> specs, queue |-> asyncQueue_g,
                             routes |-> [s \in 1..Len(specs) |-> "none"],
                             fatal |-> FALSE],
                            SchemaRules_Check(key, age), 1, key, flags, oc)} :
      /\ ~ev.fatal
      /\ Len(st.queue) <= maxQueue
      /\ \A s \in 1..Len(specs) : st.specs[s].docs.maxDocId <= MaxIndexed
      /\ specs' = st.specs
      /\ asyncQueue_g' = st.queue
      /\ ev' = [NoEv EXCEPT !.name = "process", !.key = key, !.age = age,
                            !.flags = flags, !.routes = st.routes,
                            !.oc = [s \in 1..Len(specs) |->
                                      IF st.routes[s] \in {"inline", "noidx", "fatal"}
                                        THEN oc[s] ELSE "none"],
                            !.fatal = st.fatal]
      /\ UNCHANGED <<specDict, spec_unique_ids, ScemaPrefixes_g, SchemaRules_g,
                     lastMatch, lastCreate, rindexes_g>>
      /\ UNCHANGED <<dtVars, lcVars, fdVars, rlVars>>

SchemaRules_ProcessItem(key, age, flags, oc) ==
  SchemaRules_ProcessItemUpTo(key, age, flags, oc, MaxQueue)

\* the hash of key was written: the handler of REDISMODULE_NOTIFY_HASH
hashCallback(key, age, oc) == SchemaRules_ProcessItem(key, age, {}, oc)

\* a worker of the queue takes the oldest item and indexes it
AIQ_Worker ==
  /\ ~ev.fatal
  /\ asyncQueue_g # << >>
  /\ LET item == Head(asyncQueue_g)
     IN  IF item.spec = 0
           THEN \* the handle of the item was invalidated
                /\ specs' = specs
                /\ ev' = [NoEv EXCEPT !.name = "worker", !.key = item.key]
           ELSE LET docs == IndexRecord(specs[item.spec].docs, item.key) IN
                /\ docs.maxDocId <= MaxIndexed
                /\ IF item.spec \in freed
                     THEN \* a table that was released is written to
                          \/ /\ specs' = [specs EXCEPT ![item.spec].docs = docs]
                             /\ ev' = [NoEv EXCEPT !.name = "worker",
                                                   !.key = item.key]
                          \/ /\ specs' = specs
                             /\ ev' = [NoEv EXCEPT !.name = "worker",
                                                   !.key = item.key,
                                                   !.fatal = TRUE]
                     ELSE /\ specs' = [specs EXCEPT ![item.spec].docs = docs]
                          /\ ev' = [NoEv EXCEPT !.name = "worker",
                                                !.key = item.key]
  /\ asyncQueue_g' = Tail(asyncQueue_g)
  /\ UNCHANGED <<specDict, spec_unique_ids, ScemaPrefixes_g, SchemaRules_g,
                 lastMatch, lastCreate, rindexes_g>>
  /\ UNCHANGED <<dtVars, lcVars, fdVars, rlVars>>

NextDs ==
  \/ \E args \in CreateArgsDs : ~ev.fatal /\ IndexSpec_CreateNew(args)
  \/ \E key \in DsKeys, age \in AgeVals, oc \in [1..Len(specs) -> IndexOutcomes] :
       hashCallback(key, age, oc)
  \/ \E key \in DsKeys, age \in AgeVals, flags \in ProcessFlags \ {{}},
        oc \in [1..Len(specs) -> IndexOutcomes] :
       SchemaRules_ProcessItem(key, age, flags, oc)
  \/ AIQ_Worker

\* the dispatch of written keys to the indexes
SpecDs == Init /\ [][NextDs]_vars

----------------------------------------------------------------------------
(* Properties of the dispatch *)

\* the indexes whose rule matches key
Matched(key, age) ==
  {IndexSpec_Load(SchemaRules_Check(key, age)[i]) :
     i \in 1..Len(SchemaRules_Check(key, age))}

\* the items of the queue q that are for the index s and key
QueuedFor(q, s, key) ==
  Cardinality({i \in 1..Len(q) : q[i].spec = s /\ q[i].key = key})

Holds(s, key) == DocTable_GetId(specs[s].docs, key) # 0

\* the index s is passed over by the no-reindex rule
Skipped(s, key, flags) == RULES_PROCESS_F_NOREINDEX \in flags /\ Holds(s, key)

\* what C14 says of a step of the dispatch, without its last clause
OnePathPerMatch ==
  ev'.name = "process" =>
    \A s \in LiveSpecs :
      /\ (s \in Matched(ev'.key, ev'.age) /\ ~ev'.fatal) => ev'.routes[s] # "none"
      /\ s \notin Matched(ev'.key, ev'.age) =>
           /\ ev'.routes[s] = "none"
           /\ specs'[s].docs = specs[s].docs
           /\ QueuedFor(asyncQueue_g', s, ev'.key) = QueuedFor(asyncQueue_g, s, ev'.key)
      /\ (ev'.routes[s] # "none" /\ ~Skipped(s, ev'.key, ev'.flags)) =>
           IF RULES_PROCESS_F_ASYNC \in ev'.flags \/ Index_Async \in specs[s].flags
             THEN /\ ev'.routes[s] = "async"
                  /\ QueuedFor(asyncQueue_g', s, ev'.key)
                       = QueuedFor(asyncQueue_g, s, ev'.key) + 1
                  /\ specs'[s].docs = specs[s].docs
             ELSE /\ ev'.routes[s] \in {"inline", "noidx", "fatal"}
                  /\ QueuedFor(asyncQueue_g', s, ev'.key)
                       = QueuedFor(asyncQueue_g, s, ev'.key)
                  /\ ev'.routes[s] = "inline" =>
                       /\ DocTable_GetId(specs'[s].docs, ev'.key) # 0
                       /\ specs'[s].docs # specs[s].docs

\* C14 as stated: each matched index goes one way, to the queue when the
\* index is async or the caller sets the async flag and inline otherwise, and
\* a flag of the caller makes an index that is async be indexed inline.
C14_OnePathCallerForcesEither ==
  [][/\ OnePathPerMatch
     /\ ev'.name = "process" =>
          \A s \in LiveSpecs :
            ( /\ ev'.routes[s] # "none"
              /\ RULES_PROCESS_F_OTHER \in ev'.flags
              /\ Index_Async \in specs[s].flags )
            => ev'.routes[s] # "async"]_vars

\* C14 as amended: each matched index that the no-reindex rule does not pass
\* over goes one way: to the queue, its table untouched, when the index is
\* async or the caller sets the async flag, and inline otherwise, the key
\* being in its table when the dispatch returns; an index that is async goes
\* to the queue whatever the flags of the caller.
C14_OnePathCallerForcesAsync ==
  [][/\ OnePathPerMatch
     /\ ev'.name = "process" =>
          \A s \in LiveSpecs :
            ( /\ ev'.routes[s] # "none"
              /\ ~Skipped(s, ev'.key, ev'.flags)
              /\ Index_Async \in specs[s].flags )
            => ev'.routes[s] = "async"]_vars

\* one dispatch indexed the key inline in A and submitted it for B, with a
\* flag set that the dispatch does not test
C14_Witness ==
  /\ ev.name = "process"
  /\ ev.flags = {RULES_PROCESS_F_OTHER}
  /\ \E a, b \in LiveSpecs :
       /\ specs[a].name = Str_A /\ ev.routes[a] = "inline"
       /\ specs[b].name = Str_B /\ ev.routes[b] = "async"
       /\ DocTable_GetId(specs[a].docs, ev.key) # 0
       /\ DocTable_GetId(specs[b].docs, ev.key) = 0
       /\ QueuedFor(asyncQueue_g, b, ev.key) = 1
       /\ QueuedFor(asyncQueue_g, a, ev.key) = 0

\* C15: with the no-reindex flag, a matched index that holds the key is
\* passed over: its table stays and nothing is submitted for it; a matched
\* index that does not hold the key is indexed or submitted as without the
\* flag; without the flag no index is passed over.
C15_NoReindexSkipsHolders ==
  [][ev'.name = "process" =>
       \A s \in LiveSpecs :
         ev'.routes[s] # "none" =>
           IF Skipped(s, ev'.key, ev'.flags)
             THEN /\ ev'.routes[s] = "skip"
                  /\ specs'[s].docs = specs[s].docs
                  /\ QueuedFor(asyncQueue_g', s, ev'.key)
                       = QueuedFor(asyncQueue_g, s, ev'.key)
             ELSE /\ ev'.routes[s] \in {"async", "inline", "noidx", "fatal"}
                  /\ ev'.routes[s] = "async" =>
                       QueuedFor(asyncQueue_g', s, ev'.key)
                         = QueuedFor(asyncQueue_g, s, ev'.key) + 1
                  /\ ev'.routes[s] = "inline" =>
                       DocTable_GetId(specs'[s].docs, ev'.key) # 0]_vars

\* a scan passed over A, which holds the key, and submitted the key for B,
\* which does not
C15_Witness ==
  /\ ev.name = "process"
  /\ RULES_PROCESS_F_NOREINDEX \in ev.flags
  /\ \E a, b \in LiveSpecs :
       /\ specs[a].name = Str_A /\ ev.routes[a] = "skip"
       /\ DocTable_GetId(specs[a].docs, ev.key) = 1
       /\ specs[a].docs.maxDocId = 1
       /\ specs[b].name = Str_B /\ ev.routes[b] = "async"
       /\ DocTable_GetId(specs[b].docs, ev.key) = 0
       /\ QueuedFor(asyncQueue_g, b, ev.key) = 1

\* C16: inline indexing that ends with QUERY_ENOIDXFIELDS counts as done: the
\* table of the index stays, no assert fails and the matches after it are
\* dispatched; inline indexing that ends with any other error fails an
\* assert, and an assert fails for no other reason.
C16_NoFieldsIsSuccess ==
  [][ev'.name = "process" =>
       /\ \A s \in LiveSpecs :
            /\ ev'.oc[s] = QUERY_ENOIDXFIELDS =>
                 /\ ev'.routes[s] = "noidx"
                 /\ specs'[s].docs = specs[s].docs
            /\ ev'.oc[s] \in {"load error", "index error"} =>
                 /\ ev'.routes[s] = "fatal"
                 /\ ev'.fatal
            /\ ev'.oc[s] = "indexed" => ev'.routes[s] = "inline"
            /\ ev'.routes[s] \in {"inline", "noidx", "fatal"} => ev'.oc[s] # "none"
       /\ ev'.fatal <=> \E s \in LiveSpecs : ev'.oc[s] \in {"load error", "index error"}
       /\ ~ev'.fatal =>
            \A s \in Matched(ev'.key, ev'.age) : ev'.routes[s] # "none"]_vars

\* the hash has no field of the schema of A: A holds nothing for the key, no
\* assert failed and the key was submitted for B, the match after A
C16_Witness ==
  /\ ev.name = "process"
  /\ ~ev.fatal
  /\ Len(specs) = 2
  /\ specs[1].name = Str_A /\ ev.routes[1] = "noidx"
  /\ ev.oc[1] = QUERY_ENOIDXFIELDS
  /\ DocTable_GetId(specs[1].docs, ev.key) = 0
  /\ ev.routes[2] = "async"
  /\ QueuedFor(asyncQueue_g, 2, ev.key) = 1

----------------------------------------------------------------------------
(* The removal of a key: delCallback and Indexes_DeleteMatchingWithSchemaRules *)

REDISMODULE_NOTIFY_GENERIC == "REDISMODULE_NOTIFY_GENERIC"
REDISMODULE_NOTIFY_HASH == "REDISMODULE_NOTIFY_HASH"
REDISMODULE_NOTIFY_EXPIRED == "REDISMODULE_NOTIFY_EXPIRED"
REDISMODULE_NOTIFY_EVICTED == "REDISMODULE_NOTIFY_EVICTED"

\* the names of the events, as the server spells them
Act_del == <<"d", "e", "l">>
Act_expire == <<"e", "x", "p", "i", "r", "e">>
Act_rename_from == <<"r", "e", "n", "a", "m", "e", "_", "f", "r", "o", "m">>
Act_expired == <<"e", "x", "p", "i", "r", "e", "d">>
Act_evicted == <<"e", "v", "i", "c", "t", "e", "d">>

\* the notifications of the server about a key, other than those of the
\* writes to a hash: DEL, EXPIRE, RENAME, the expiry and the eviction
KeyEvents ==
  { [event |-> REDISMODULE_NOTIFY_GENERIC, action |-> Act_del],
    [event |-> REDISMODULE_NOTIFY_GENERIC, action |-> Act_expire],
    [event |-> REDISMODULE_NOTIFY_GENERIC, action |-> Act_rename_from],
    [event |-> REDISMODULE_NOTIFY_EXPIRED, action |-> Act_expired],
    [event |-> REDISMODULE_NOTIFY_EVICTED, action |-> Act_evicted] }

\* the keys of the tests of removal: "x:1" and "o:1"
DelKeys == {<<"x", ":", "1">>, <<"o", ":", "1">>}

\* the mask delCallback is subscribed with (rules.c:143-144)
DelCallbackMask == {REDISMODULE_NOTIFY_GENERIC, REDISMODULE_NOTIFY_EXPIRED}

DocTable_DeleteR(t, key) == DocTable_Delete(t, key)

\* rules.c:112-120
ShouldDelete(event, action) ==
  \/ event \in {REDISMODULE_NOTIFY_EVICTED, REDISMODULE_NOTIFY_EXPIRED}
  \/ event = REDISMODULE_NOTIFY_GENERIC /\ Len(action) > 0 /\ action[1] = "d"

\* the loop over rindexes_g (rules.c:123-129)
RECURSIVE DeleteFromAll(_, _, _)
DeleteFromAll(sps, ii, key) ==
  IF ii > Len(rindexes_g)
    THEN sps
    ELSE DeleteFromAll(
           [sps EXCEPT ![rindexes_g[ii]].docs = DocTable_DeleteR(@, key).t],
           ii + 1, key)

\* the indexes as delCallback leaves them
delCallback(event, action, keyname) ==
  IF ~ShouldDelete(event, action) THEN specs ELSE DeleteFromAll(specs, 1, keyname)

\* every index that was created is in rindexes_g
AllRegistered == \A s \in 1..Len(specs) : \E i \in 1..Len(rindexes_g) : rindexes_g[i] = s

\* the index sp is not in rindexes_g
Unregistered(sp) == \A i \in 1..Len(rindexes_g) : rindexes_g[i] # sp

\* rules.c:152-157: sp is appended, whether or not the array holds it
SchemaRules_RegisterIndex(sp) ==
  /\ sp \in 1..Len(specs)
  /\ Len(rindexes_g) < MaxRegistered
  /\ rindexes_g' = Append(rindexes_g, sp)
  /\ ev' = NoEv
  /\ UNCHANGED <<ixVars, asyncQueue_g>>
  /\ UNCHANGED <<dtVars, lcVars, fdVars, rlVars>>

\* the server notifies of event: the callbacks subscribed to its class run
KeyspaceEvent(event, action, key) ==
  /\ AllRegistered
  /\ specs' = IF event \in DelCallbackMask
                THEN delCallback(event, action, key)
                ELSE specs
  /\ ev' = [NoEv EXCEPT !.name = "notify", !.key = key, !.event = event,
                        !.action = action]
  /\ UNCHANGED <<specDict, spec_unique_ids, ScemaPrefixes_g, SchemaRules_g,
                 lastMatch, lastCreate, rindexes_g, asyncQueue_g>>
  /\ UNCHANGED <<dtVars, lcVars, fdVars, rlVars>>

\* spec.c:1378-1408; loaded: Document_LoadSchemaFields succeeds. A key the
\* index did not hold is one more document of the index.
IndexSpec_UpdateWithHash(spec, key, loaded) ==
  IF spec.rule = NoRule \/ ~loaded
    THEN spec
    ELSE [spec EXCEPT !.docs = IndexRecord(@, key),
                      !.stats.numDocuments =
                        IF DocTable_GetId(spec.docs, key) = 0 THEN @ + 1 ELSE @]

\* the loop over the dict of the matching indexes (spec.c:1511-1518)
RECURSIVE UpdateAll(_, _, _, _, _)
UpdateAll(sps, found, i, key, loaded) ==
  IF i > Len(found)
    THEN sps
    ELSE UpdateAll([sps EXCEPT ![found[i].val] =
                      IndexSpec_UpdateWithHash(@, key, loaded[found[i].val])],
                   found, i + 1, key, loaded)

\* the scan of the keyspace comes to key, whose hash has the field age
Indexes_UpdateMatchingWithSchemaRules(key, age, loaded) ==
  \E sps \in {UpdateAll(specs, Indexes_FindMatchingSchemaRules(key, age), 1,
                        key, loaded)} :
    /\ AllRegistered
    /\ \A s \in 1..Len(specs) : sps[s].docs.maxDocId <= MaxIndexed
    /\ specs' = sps
    /\ ev' = [NoEv EXCEPT !.name = "update", !.key = key, !.age = age]
    /\ UNCHANGED <<specDict, spec_unique_ids, ScemaPrefixes_g, SchemaRules_g,
                   lastMatch, lastCreate, rindexes_g, asyncQueue_g>>
    /\ UNCHANGED <<dtVars, lcVars, fdVars, rlVars>>

\* the command RedisModule_Replicate is called with
RS_DEL_CMD == "RS_DEL_CMD"

\* what IndexSpec_DeleteHash leaves: the index, the commands it has replicated
\* and whether GCContext_OnDelete was called
Deleted(spec, repl, gc) == [spec |-> spec, repl |-> repl, gc |-> gc]

\* the count is lowered without asking whether the index holds the key
IndexSpec_DeleteHash_NoIdTest(spec, key) ==
  Deleted([spec EXCEPT !.docs = DocTable_DeleteR(@, key).t,
                       !.stats.numDocuments = @ - 1],
          <<[cmd |-> RS_DEL_CMD, index |-> spec.name, key |-> key]>>,
          spec.gc.started)

\* spec.c:1410-1431
IndexSpec_DeleteHash(spec, key) ==
  IF DocTable_GetId(spec.docs, key) = 0
    THEN Deleted(spec, << >>, FALSE)
    ELSE IF DocTable_DeleteR(spec.docs, key).ret
      THEN Deleted([spec EXCEPT !.docs = DocTable_DeleteR(@, key).t,
                                !.stats.numDocuments = @ - 1],
                   <<[cmd |-> RS_DEL_CMD, index |-> spec.name, key |-> key]>>,
                   spec.gc.started)
      ELSE Deleted(spec, << >>, FALSE)

\* what the loop over the matching indexes leaves: the indexes, the commands
\* replicated and the indexes whose GC was notified
DeletedAll(sps, repl, gc) == [sps |-> sps, repl |-> repl, gc |-> gc]

\* the loop over the dict of the matching indexes (spec.c:1526-1533)
RECURSIVE DeleteAll(_, _, _, _)
DeleteAll(acc, found, i, key) ==
  IF i > Len(found)
    THEN acc
    ELSE LET d == IndexSpec_DeleteHash(acc.sps[found[i].val], key)
         IN  DeleteAll(DeletedAll([acc.sps EXCEPT ![found[i].val] = d.spec],
                                  acc.repl \o d.repl,
                                  IF d.gc THEN Append(acc.gc, found[i].val) ELSE acc.gc),
                       found, i + 1, key)

\* key was removed: its hash has no field any more
Indexes_DeleteMatchingWithSchemaRules(key) ==
  \E d \in {DeleteAll(DeletedAll(specs, << >>, << >>),
                       Indexes_FindMatchingSchemaRules(key, NoField), 1, key)} :
    /\ AllRegistered
    /\ specs' = d.sps
    /\ ev' = [NoEv EXCEPT !.name = "deleteMatching", !.key = key, !.repl = d.repl,
                          !.gc = d.gc]
    /\ UNCHANGED <<specDict, spec_unique_ids, ScemaPrefixes_g, SchemaRules_g,
                   lastMatch, lastCreate, rindexes_g, asyncQueue_g>>
    /\ UNCHANGED <<dtVars, lcVars, fdVars, rlVars>>

\* the indexes of CreateArgsDs, and a temporary index on "x:", which has no
\* GC (spec.c:975-977)
CreateArgsDel ==
  CreateArgsDs \cup
  { [name |-> Str_A, prefixGiven |-> TRUE, prefixes |-> <<Str_x>>,
     filter |-> NoExpr, async |-> FALSE, bad |-> FALSE, temporary |-> TRUE,
     schema |-> TRUE] }

NextDel ==
  \/ \E args \in CreateArgsDs : AllRegistered /\ IndexSpec_CreateNew(args)
  \/ \E sp \in 1..MaxSpecs : Unregistered(sp) /\ SchemaRules_RegisterIndex(sp)
  \/ \E key \in DelKeys, age \in AgeVals, loaded \in [1..Len(specs) -> BOOLEAN] :
       Indexes_UpdateMatchingWithSchemaRules(key, age, loaded)
  \/ \E e \in KeyEvents, key \in DelKeys : KeyspaceEvent(e.event, e.action, key)
  \/ \E key \in DelKeys : Indexes_DeleteMatchingWithSchemaRules(key)

\* the indexing of scanned keys and the removal of keys
SpecDel == Init /\ [][NextDel]_vars

\* keys are indexed and removed with Indexes_DeleteMatchingWithSchemaRules
NextDelHash ==
  \/ \E args \in CreateArgsDel : AllRegistered /\ IndexSpec_CreateNew(args)
  \/ \E sp \in 1..MaxSpecs : Unregistered(sp) /\ SchemaRules_RegisterIndex(sp)
  \/ \E key \in DelKeys, age \in AgeVals :
       Indexes_UpdateMatchingWithSchemaRules(key, age, [s \in 1..Len(specs) |-> TRUE])
  \/ \E key \in DelKeys : Indexes_DeleteMatchingWithSchemaRules(key)

\* the indexes with and without a GC, and the removal of their keys
SpecDelHash == Init /\ [][NextDelHash]_vars

\* the reasons of a removal: the key was deleted, has expired, was evicted
IsRemoval(event, action) ==
  \/ event = REDISMODULE_NOTIFY_GENERIC /\ action = Act_del
  \/ event = REDISMODULE_NOTIFY_EXPIRED
  \/ event = REDISMODULE_NOTIFY_EVICTED

\* C12: after the removal of a key was dispatched, by delCallback or by
\* Indexes_DeleteMatchingWithSchemaRules, no index holds the key: getId(key)
\* is 0 in every index, whether or not the rule of the index matches the key.
C12_RemovalReachesEveryHolder ==
  ( \/ ev.name = "deleteMatching"
    \/ /\ ev.name = "notify"
       /\ ev.event \in DelCallbackMask
       /\ ShouldDelete(ev.event, ev.action) )
  => \A s \in LiveSpecs : DocTable_GetId(specs[s].docs, ev.key) = 0

\* C13: a notification whose reason is deleted, expired or evicted leaves the
\* key in no index; any other notification leaves every table as it was.
C13_RemovedIffDelExpiredEvicted ==
  [][ev'.name = "notify" =>
       IF IsRemoval(ev'.event, ev'.action)
         THEN \A s \in LiveSpecs : DocTable_GetId(specs'[s].docs, ev'.key) = 0
         ELSE specs' = specs]_vars

----------------------------------------------------------------------------
(* The drop of an index: IndexSpec_Free, IndexSpec_FreeInternals *)

\* the index of a rule is the name of the index, letter for letter
SameIndexName_Exact(index, name) == <<index>> = name

\* strcasecmp of the index of a rule with the name of an index is 0
\* (rules.c:177); the names of the indexes are one character long
SameIndexName(index, name) == Len(name) = 1 /\ ToLower(index) = ToLower(name[1])

\* the nodes of the trie without spec; a node that lists no index is removed
SchemaPrefixes_RemoveSpec(t, spec) ==
  LET left == [p \in DOMAIN t |->
                 SelectSeq(t[p].index_specs, LAMBDA s : s # spec)]
  IN  [p \in {q \in DOMAIN t : left[q] # << >>} |->
         [prefix |-> p, index_specs |-> left[p]]]

\* the rule of spec leaves the rules and its prefixes leave the trie
SchemaRule_Free(h, sp) ==
  [h EXCEPT !.SchemaRules_g = SelectSeq(@, LAMBDA r : r.spec # sp),
            !.ScemaPrefixes_g = SchemaPrefixes_RemoveSpec(@, sp),
            !.specs[sp].rule = NoRule]

\* spec.c:698-745: the rule is freed, then the rest of the object
IndexSpec_FreeInternals_Finish ==
  /\ dropping # 0
  /\ HeapIs([(IF specs[dropping].rule # NoRule
                THEN SchemaRule_Free(Heap, dropping) ELSE Heap)
             EXCEPT !.dropping = 0])
  /\ ev' = [NoEv EXCEPT !.name = "freed"]
  /\ UNCHANGED <<spec_unique_ids, lastMatch, lastCreate, rindexes_g, asyncQueue_g>>
  /\ UNCHANGED <<dtVars, rlVars, fdVars>>

\* the indexes a drop is called on here: registered, and not yet handed to the
\* cleaning thread (SpecFree has the calls on an index that was handed over)
Droppable(sp) ==
  /\ dropping = 0
  /\ \E i \in 1..Len(specDict) : specDict[i].val = sp
  /\ \A i \in 1..Len(cleanPool) : cleanPool[i] # sp

\* FT.DROP, and onFlush for every index of specDict (spec.c:1433-1449)
DropIndex(sp) ==
  /\ Droppable(sp)
  /\ HeapIs(IndexSpec_Free(Heap, sp))
  /\ ev' = [NoEv EXCEPT !.name = "drop"]
  /\ UNCHANGED <<spec_unique_ids, lastMatch, lastCreate, rindexes_g, asyncQueue_g>>
  /\ UNCHANGED <<dtVars, rlVars, fdVars>>

\* the server starts to load a file: every index of specDict is freed
IndexSpec_LoadingEvent(sp) ==
  /\ Droppable(sp)
  /\ HeapIs(FreeInternals_ToTable(Heap, sp))
  /\ ev' = [NoEv EXCEPT !.name = "loading"]
  /\ UNCHANGED <<spec_unique_ids, lastMatch, lastCreate, rindexes_g, asyncQueue_g>>
  /\ UNCHANGED <<dtVars, rlVars, fdVars>>

\* the cleaning thread takes the oldest index handed to it
IndexSpec_FreeAsync ==
  /\ dropping = 0
  /\ cleanPool # << >>
  /\ HeapIs(FreeInternals_ToTable([Heap EXCEPT !.cleanPool = Tail(@)],
                                  Head(cleanPool)))
  /\ ev' = [NoEv EXCEPT !.name = "freeAsync"]
  /\ UNCHANGED <<spec_unique_ids, lastMatch, lastCreate, rindexes_g, asyncQueue_g>>
  /\ UNCHANGED <<dtVars, rlVars, fdVars>>

\* array_del_fast: the last element takes the place of the element at ix
array_del_fast(arr, ix) ==
  [i \in 1..(Len(arr) - 1) |-> IF i = ix THEN arr[Len(arr)] ELSE arr[i]]

\* rules.c:164-169: the place of the first entry of sp, one past the end of
\* the array when there is none
FirstEntry(sp) ==
  IF Unregistered(sp)
    THEN Len(rindexes_g) + 1
    ELSE CHOOSE ix \in 1..Len(rindexes_g) :
           /\ rindexes_g[ix] = sp
           /\ \A j \in 1..(ix - 1) : rindexes_g[j] # sp

\* rules.c:175-181: the rules whose index is the name of the index, letters
\* of either case, leave the rules; ARRAY_DEL_ITER goes on with the rule that
\* follows the one it removed
DelRulesOf(rs, name) == SelectSeq(rs, LAMBDA r : ~SameIndexName(r.index, name))

\* rules.c:159-182
SchemaRules_UnregisterIndex(sp) ==
  /\ dropping = 0
  /\ sp \in 1..Len(specs)
  /\ sp \notin freed
  /\ IF FirstEntry(sp) = Len(rindexes_g) + 1
       THEN UNCHANGED <<rindexes_g, rules>>
       ELSE /\ rindexes_g' = array_del_fast(rindexes_g, FirstEntry(sp))
            /\ rules' = DelRulesOf(rules, specs[sp].name)
  /\ ev' = [NoEv EXCEPT !.name = "unregister", !.key = specs[sp].name]
  /\ pev' = [NoPev EXCEPT !.name = "unregister", !.before = rules]
  /\ UNCHANGED <<rdb, asyncQueue_g>>
  /\ UNCHANGED <<dtVars, ixVars, lcVars, fdVars>>

\* creations of the index A that succeed, and that fail at the missing SCHEMA
CreateArgsDrop ==
  { [name |-> Str_A, prefixGiven |-> TRUE, prefixes |-> <<Str_x>>,
     filter |-> NoExpr, async |-> FALSE, bad |-> FALSE, temporary |-> t,
     schema |-> s] : t \in BOOLEAN, s \in BOOLEAN }

NextDrop ==
  \/ \E args \in CreateArgsDrop : IndexSpec_CreateNew(args)
  \/ IndexSpec_FreeInternals_Finish
  \/ \E sp \in 1..MaxSpecs : DropIndex(sp)
  \/ \E sp \in 1..MaxSpecs : IndexSpec_LoadingEvent(sp)
  \/ IndexSpec_FreeAsync
  \/ \E sp \in 1..MaxSpecs :
       Droppable(sp) /\ Unregistered(sp) /\ SchemaRules_RegisterIndex(sp)
  \/ \E sp \in 1..MaxSpecs : SchemaRules_UnregisterIndex(sp)
  \/ dropping = 0 /\ AddRule("A", "r", <<"PREFIX", "1", "x:">>)
  \/ \E key \in DsKeys : dropping = 0 /\ Match(key, NoField)

\* indexes that are created, dropped and freed
SpecDrop == Init /\ [][NextDrop]_vars

\* the creation of the index B, which is indexed through the queue
CreateArgsQueue ==
  { [name |-> Str_B, prefixGiven |-> FALSE, prefixes |-> << >>,
     filter |-> NoExpr, async |-> TRUE, bad |-> FALSE, temporary |-> FALSE,
     schema |-> TRUE] }

NextDropQueue ==
  \/ \E args \in CreateArgsQueue : ~ev.fatal /\ IndexSpec_CreateNew(args)
  \/ IndexSpec_FreeInternals_Finish
  \/ \E sp \in 1..MaxSpecs : ~ev.fatal /\ DropIndex(sp)
  \/ \E key \in DelKeys, oc \in [1..Len(specs) -> {"indexed"}] :
       /\ dropping = 0
       /\ hashCallback(key, NoField, oc)
  \/ dropping = 0 /\ AIQ_Worker

\* an index that is dropped while the queue holds items for it
SpecDropQueue == Init /\ [][NextDropQueue]_vars

----------------------------------------------------------------------------
(* Properties of the drop of an index *)

\* the step allocates an index object whose creation fails
CreationFails ==
  \/ /\ Len(specs') = Len(specs) + 1
     /\ specs'[Len(specs')].uniqueId = 0
  \/ /\ lastCreate' # lastCreate
     /\ lastCreate'.code = QUERY_EPARSEARGS

\* the step begins to free an index object whose creation had failed
FailedObjectFreed ==
  /\ dropping' # 0
  /\ dropping' # dropping
  /\ specs'[dropping'].uniqueId = 0

\* C21: a creation that fails leaves the registered indexes as they were:
\* neither the call that fails nor the cleanup of the object it had
\* allocated, run at once or later by the cleaning thread, changes which
\* index is registered under which name, also when an index of the same name
\* was created in between.
C21_FailedCreateIsAtomic ==
  [][(CreationFails \/ FailedObjectFreed) => specDict' = specDict]_vars

\* the rule of the index s is registered: it is among the rules, or a node
\* of the prefix trie lists s
RuleRegistered(s) ==
  \/ \E i \in 1..Len(SchemaRules_g) : SchemaRules_g[i].spec = s
  \/ \E p \in DOMAIN ScemaPrefixes_g : s \in Range(ScemaPrefixes_g[p].index_specs)

C23_RuleGoesBeforeTable ==
  \A s \in freed : specs[s].uniqueId # 0 => ~RuleRegistered(s)

----------------------------------------------------------------------------
(* Properties of the fields of an index *)

\* the fields of the index that are in use
LiveFields(sp) == SubSeq(sp.fields, 1, sp.numFields)

\* C26: when a call that adds fields to an index is rejected, the number of
\* fields, the list of fields and the length of the table of sortable fields
\* are what they were before the call, also when fields of the same call were
\* added before the one that is rejected.
C26_AddFieldsAllOrNothing ==
  [][(fev'.name = "add" /\ fev'.rc = 0) =>
       /\ fsp'.numFields = fsp.numFields
       /\ LiveFields(fsp') = LiveFields(fsp)
       /\ fsp'.sortables.len = fsp.sortables.len]_vars

\* a rejected call had added a sortable field before the field that failed
C26_Witness ==
  /\ fev.name = "add"
  /\ fev.rc = 0
  /\ fsp.numFields >= 1
  /\ Len(fsp.fields) >= fsp.numFields + 2
  /\ Len(fsp.sortables.fields) > fsp.sortables.len

\* the call with the arguments args is rejected as naming a field twice
DuplicateRejected(sp, args, isNew) ==
  \E r \in {IndexSpec_AddFieldsInternal(sp, caches, args, isNew)} :
    r.rc = 0 /\ r.code = QUERY_EINVAL /\ r.msg = "Duplicate field in schema"

\* the call with the arguments args is accepted
Accepted(sp, args, isNew) == IndexSpec_AddFieldsInternal(sp, caches, args, isNew).rc = 1

\* C27: no two fields of an index have names that are equal ignoring case; a
\* call that names a field of the index, or a field it has itself added
\* before, in any case of the letters, is rejected with "Duplicate field in
\* schema", at the creation of the index and afterwards.
C27_NoTwoFieldsSameName ==
  /\ \A i, j \in 1..fsp.numFields :
       i # j => ~SameNameNoCase(fsp.fields[i].name, fsp.fields[j].name)
  /\ \A d \in FieldDefs :
       (\E i \in 1..fsp.numFields : SameNameNoCase(fsp.fields[i].name, Head(d)))
         => DuplicateRejected(fsp, d, ~fsp.created)
  /\ \A d1, d2 \in FieldDefs :
       (SameNameNoCase(Head(d1), Head(d2)) /\ Accepted(fsp, d1, ~fsp.created))
         => DuplicateRejected(fsp, d1 \o d2, ~fsp.created)

\* the index holds the field T alone and a call was rejected for a duplicate
C27_Witness ==
  /\ fsp.created
  /\ fsp.numFields = 1
  /\ fsp.fields[1].name = "T"
  /\ fev.name = "add"
  /\ fev.rc = 0
  /\ fev.msg = "Duplicate field in schema"
  /\ DuplicateRejected(fsp, <<"t", "TEXT">>, FALSE)

\* the places of the indexable full-text fields of the index
IndexedText(sp) == {i \in 1..sp.numFields : IsIndexedText(sp.fields[i])}

\* the largest text id of the indexable full-text fields, -1 when there is none
LargestTextId(sp) ==
  IF IndexedText(sp) = {} THEN -1
  ELSE CHOOSE m \in {sp.fields[i].ftId : i \in IndexedText(sp)} :
         \A i \in IndexedText(sp) : sp.fields[i].ftId <= m

\* the definitions of one indexable full-text field
IndexedTextDefs ==
  {d \in FieldDefs : Len(d) >= 2 /\ d[2] = "TEXT"
                     /\ \A k \in 1..Len(d) : d[k] # "NOINDEX"}

\* C28: the text ids of the indexable full-text fields of an index are
\* distinct and below SPEC_MAX_FIELD_ID; a new such field that is accepted
\* gets the largest text id of the index plus one, and it is rejected with
\* "Too many TEXT fields in schema" when that id would reach the limit.
C28_TextIdsDistinctAndBelowLimit ==
  /\ \A i \in IndexedText(fsp) :
       /\ fsp.fields[i].ftId >= 0
       /\ fsp.fields[i].ftId < SPEC_MAX_FIELD_ID
       /\ \A j \in IndexedText(fsp) : i # j => fsp.fields[i].ftId # fsp.fields[j].ftId
  /\ \A d \in IndexedTextDefs :
       IndexSpec_GetField(fsp, Head(d)) = 0 =>
         \E r \in {IndexSpec_AddFieldsInternal(fsp, caches, d, ~fsp.created)} :
           /\ LargestTextId(fsp) + 1 >= SPEC_MAX_FIELD_ID =>
                /\ r.rc = 0
                /\ r.code = QUERY_ELIMIT
                /\ r.msg = "Too many TEXT fields in schema"
           /\ r.rc = 1 =>
                r.sp.fields[r.sp.numFields].ftId = LargestTextId(fsp) + 1

\* the index holds the text ids up to the limit and a call that adds a text
\* field was rejected for it
C28_Witness ==
  /\ fsp.created
  /\ {fsp.fields[i].ftId : i \in IndexedText(fsp)} = 0..(SPEC_MAX_FIELD_ID - 1)
  /\ fev.name = "add"
  /\ fev.rc = 0
  /\ fev.msg = "Too many TEXT fields in schema"

\* the references to the cache c: that of the index and those of the callers
References(c) == (IF fsp.spcache = c THEN 1 ELSE 0) + caches[c].holders

\* C29: the count of a cache of the fields is one for the index that has it
\* plus one for every result of IndexSpec_GetSpecCache not yet given back,
\* and the cache is freed when and only when the count is zero; the cache of
\* the index holds the fields of the index, and a cache that a caller holds
\* keeps its fields and is not freed by any call, adding fields and freeing
\* the index included, before that caller gives it back.
C29_CacheFreedWithLastHolder ==
  /\ [](\A c \in 1..Len(caches) :
          /\ caches[c].refcount = References(c)
          /\ caches[c].freed <=> caches[c].refcount = 0
          /\ fsp.spcache = c => caches[c].fields = LiveFields(fsp))
  /\ [][\A c \in 1..Len(caches) :
          (caches[c].holders > 0 /\ caches'[c].holders >= caches[c].holders) =>
            /\ ~caches'[c].freed
            /\ caches'[c].fields = caches[c].fields
            /\ caches'[c].nfields = caches[c].nfields]_vars

\* a caller holds a cache from before fields were added, and the index has a
\* new cache with the fields of now
C29_Witness ==
  \E c \in 1..Len(caches) :
    /\ caches[c].holders > 0
    /\ ~caches[c].freed
    /\ fsp.spcache # 0
    /\ fsp.spcache # c
    /\ caches[c].fields # LiveFields(fsp)
    /\ caches[fsp.spcache].fields = LiveFields(fsp)
    /\ caches[fsp.spcache].holders > 0
    /\ fev.name = "getCache"

----------------------------------------------------------------------------
(* Properties of IndexSpec_DeleteHash *)

\* the keys of DelKeys the table t holds
HeldKeys(t) == {k \in DelKeys : DocTable_GetId(t, k) # 0}

\* C30: IndexSpec_DeleteHash of a key the table of the index does not hold
\* leaves the index as it is, notifies no GC and replicates nothing; of a key
\* the table holds, it leaves the table without that key and with its other
\* keys, the number of documents lower by one, the GC of the index, if it has
\* one, notified, and one RS_DEL_CMD for the index and the key replicated.
C30_DeleteHashFrameAndEffect ==
  \A s \in 1..Len(specs), key \in DelKeys :
    \E d \in {IndexSpec_DeleteHash(specs[s], key)} :
      IF DocTable_GetId(specs[s].docs, key) = 0
        THEN /\ d.spec = specs[s]
             /\ d.repl = << >>
             /\ ~d.gc
        ELSE /\ HeldKeys(d.spec.docs) = HeldKeys(specs[s].docs) \ {key}
             /\ d.spec.stats.numDocuments = specs[s].stats.numDocuments - 1
             /\ d.spec.stats.numDocuments >= 0
             /\ d.spec.gc = specs[s].gc
             /\ d.gc <=> specs[s].gc.started
             /\ d.repl = <<[cmd |-> RS_DEL_CMD, index |-> specs[s].name, key |-> key]>>

\* the removal of a key has come to an index with a GC that held the key,
\* while there is another index
C30_Witness ==
  /\ ev.name = "deleteMatching"
  /\ Len(ev.repl) = 1
  /\ Len(ev.gc) = 1
  /\ ev.repl[1].index = specs[ev.gc[1]].name
  /\ DocTable_GetId(specs[ev.gc[1]].docs, ev.key) = 0
  /\ \E s \in 1..Len(specs) : s # ev.gc[1] /\ specs[s].rule # NoRule

----------------------------------------------------------------------------
(* The load of a file: IndexSpec_LoadingEvent, IndexSpec_ScanAndReindex *)

REDISMODULE_SUBEVENT_LOADING_RDB_START == "REDISMODULE_SUBEVENT_LOADING_RDB_START"
REDISMODULE_SUBEVENT_LOADING_AOF_START == "REDISMODULE_SUBEVENT_LOADING_AOF_START"
REDISMODULE_SUBEVENT_LOADING_REPL_START == "REDISMODULE_SUBEVENT_LOADING_REPL_START"
REDISMODULE_SUBEVENT_LOADING_ENDED == "REDISMODULE_SUBEVENT_LOADING_ENDED"
REDISMODULE_SUBEVENT_LOADING_FAILED == "REDISMODULE_SUBEVENT_LOADING_FAILED"

\* the subevents of RedisModuleEvent_Loading
LoadingSubevents ==
  { REDISMODULE_SUBEVENT_LOADING_RDB_START, REDISMODULE_SUBEVENT_LOADING_AOF_START,
    REDISMODULE_SUBEVENT_LOADING_REPL_START, REDISMODULE_SUBEVENT_LOADING_ENDED,
    REDISMODULE_SUBEVENT_LOADING_FAILED }

\* spec.c:1344-1346
IsLoadingStart(subevent) ==
  subevent \in { REDISMODULE_SUBEVENT_LOADING_RDB_START,
                 REDISMODULE_SUBEVENT_LOADING_AOF_START,
                 REDISMODULE_SUBEVENT_LOADING_REPL_START }

\* spec.c:676-745 from its first line to its last
IndexSpec_FreeInternals(h, sp) ==
  [(IF h.specs[sp].rule # NoRule
      THEN SchemaRule_Free(FreeInternals_ToTable(h, sp), sp)
      ELSE FreeInternals_ToTable(h, sp))
   EXCEPT !.dropping = 0]

\* the first of the indexes collected is freed and no other
FreeEach_FirstOnly(h, collected, i) ==
  IF collected = << >> THEN h ELSE IndexSpec_FreeInternals(h, collected[1].val)

\* the loop of spec.c:1356-1358 over the indexes collected from specDict
RECURSIVE FreeEach(_, _, _)
FreeEach(h, collected, i) ==
  IF i > Len(collected)
    THEN h
    ELSE FreeEach(IndexSpec_FreeInternals(h, collected[i].val), collected, i + 1)

\* the order in which RedisModule_Scan comes to the keys
ScanOrder == << <<"x", ":", "1">>, <<"o", ":", "1">> >>

\* the key is not in the keyspace
NoKey == [t |-> "absent", n |-> 0]

\* the keyspaces of the scans: for every key, the field age of its hash
Keyspaces == [1..Len(ScanOrder) -> {NoKey, [t |-> "num", n |-> 20]}]

\* IndexSpec_ScanCallback for the keys of the keyspace, one after the other
RECURSIVE ScanAll(_, _, _, _)
ScanAll(sps, keyspace, loaded, i) ==
  IF i > Len(ScanOrder)
    THEN sps
    ELSE ScanAll(IF keyspace[i] = NoKey
                   THEN sps
                   ELSE UpdateAll(sps,
                                  Indexes_FindMatchingSchemaRules(ScanOrder[i],
                                                                  keyspace[i]),
                                  1, ScanOrder[i], loaded),
                 keyspace, loaded, i + 1)

\* the server notifies of a subevent of the load of a file (spec.c:1342-1363)
LoadingEvent(subevent, keyspace, loaded) ==
  /\ dropping = 0
  /\ IF IsLoadingStart(subevent)
       THEN HeapIs(FreeEach(Heap, specDict, 1))
       ELSE IF subevent = REDISMODULE_SUBEVENT_LOADING_ENDED
         THEN \E sps \in {ScanAll(specs, keyspace, loaded, 1)} :
                /\ \A s \in 1..Len(specs) : sps[s].docs.maxDocId <= MaxIndexed
                /\ specs' = sps
                /\ UNCHANGED <<specDict, ScemaPrefixes_g, SchemaRules_g, lcVars>>
         ELSE UNCHANGED <<specs, specDict, ScemaPrefixes_g, SchemaRules_g, lcVars>>
  /\ ev' = [NoEv EXCEPT !.name = "loading", !.subevent = subevent,
                        !.keyspace = keyspace]
  /\ UNCHANGED <<spec_unique_ids, lastMatch, lastCreate, rindexes_g, asyncQueue_g>>
  /\ UNCHANGED <<dtVars, rlVars, fdVars>>

\* a subevent other than the end of the load comes with no scan
NextLoad ==
  \/ \E args \in CreateArgsDs : IndexSpec_CreateNew(args)
  \/ \E sub \in LoadingSubevents \ {REDISMODULE_SUBEVENT_LOADING_ENDED} :
       LoadingEvent(sub, << >>, << >>)
  \/ \E keyspace \in Keyspaces :
       LoadingEvent(REDISMODULE_SUBEVENT_LOADING_ENDED, keyspace,
                    [s \in 1..Len(specs) |-> TRUE])

\* indexes are created, freed when a load starts and filled when it has ended
SpecLoad == Init /\ [][NextLoad]_vars

\* the subevents with which a load starts
StartsOfLoad ==
  { REDISMODULE_SUBEVENT_LOADING_RDB_START, REDISMODULE_SUBEVENT_LOADING_AOF_START,
    REDISMODULE_SUBEVENT_LOADING_REPL_START }

\* the indexes that a lookup by name finds
Resolvable == {specDict[i].val : i \in 1..Len(specDict)}

\* the indexes of s whose table holds a key of the keyspace
Indexed(sps, s) == {i \in 1..Len(ScanOrder) : DocTable_GetId(sps[s].docs, ScanOrder[i]) # 0}

----------------------------------------------------------------------------
(* Properties of a load of rules that fails *)

\* C32: a load of rules that returns REDISMODULE_ERR leaves the registry as
\* it was before the load began, without the rules of the stream that were
\* added before the rule that failed.
C32_FailedLoadLeavesRegistry ==
  (pev.name = "load" /\ pev.ret = REDISMODULE_ERR) => rules = pev.before

----------------------------------------------------------------------------
(* Properties of the flags of an index whose fields are rolled back *)

\* C33: a call of IndexSpec_AddFields that fails leaves the flags of the
\* index as they were: a flag set for an earlier field of the call
\* (Index_HasPhonetic, Index_WideSchema) is not left set when a later field
\* of the call is rejected and the fields are rolled back.
C33_FailedAddFieldsKeepsFlags ==
  [][(fev'.name = "add" /\ fev'.rc = 0) => fsp'.flags = fsp.flags]_vars

----------------------------------------------------------------------------
(* Properties of the number of fields *)

\* C34: after any creation and any calls that add fields, an index holds at
\* most SPEC_MAX_FIELDS fields, and the position of every field is a slot of
\* the arrays of SPEC_MAX_FIELDS entries that hold one entry per field.
C34_FieldsWithinMaxFields ==
  /\ fsp.numFields <= SPEC_MAX_FIELDS
  /\ \A i \in 1..fsp.numFields : fsp.fields[i].index \in 0..(SPEC_MAX_FIELDS - 1)

----------------------------------------------------------------------------
(* The deferred free of a temporary index: IndexSpec_Free, cleanPool *)

\* the frees the cleaning thread may have before it
MaxPool == 2

\* spec.c:795-820: the index registered under the name, 0 when there is
\* none; no alias is defined, and a temporary index is returned as any other
IndexSpec_LoadEx(name) == dictFetchValue(specDict, name)

\* spec.c:764-776 as one step: the free of a temporary index is handed to
\* the cleaning thread, any other index is freed at once
IndexSpec_FreeNow(h, sp) ==
  IF Index_Temporary \in h.specs[sp].flags
    THEN [h EXCEPT !.cleanPool = Append(@, sp)]
    ELSE IndexSpec_FreeInternals(h, sp)

\* spec.c:1433-1441: every index of specDict is given to IndexSpec_Free
RECURSIVE CleanEach(_, _, _)
CleanEach(h, collected, i) ==
  IF i > Len(collected)
    THEN h
    ELSE CleanEach(IndexSpec_FreeNow(h, collected[i].val), collected, i + 1)

\* onFlush at REDISMODULE_SUBEVENT_FLUSHDB_START (spec.c:1443-1448)
IndexSpec_CleanAll ==
  /\ dropping = 0
  /\ \E h \in {CleanEach(Heap, specDict, 1)} :
       /\ Len(h.cleanPool) <= MaxPool
       /\ HeapIs(h)
  /\ ev' = [NoEv EXCEPT !.name = "flush"]
  /\ UNCHANGED <<spec_unique_ids, lastMatch, lastCreate, rindexes_g, asyncQueue_g>>
  /\ UNCHANGED <<dtVars, rlVars, fdVars>>

\* the cleaning thread runs the oldest free handed to it (spec.c:749-760).
\* When the object was released in the meantime the free works on released
\* memory: the process ends, or the free runs once more on what the object
\* held.
CleanPool_Work ==
  /\ dropping = 0
  /\ ~ev.fatal
  /\ cleanPool # << >>
  /\ LET sp == Head(cleanPool)
         h  == [Heap EXCEPT !.cleanPool = Tail(@)]
     IN  IF sp \in freed
           THEN \/ /\ HeapIs(h)
                   /\ ev' = [NoEv EXCEPT !.name = "freeAsync", !.fatal = TRUE]
                \/ /\ HeapIs(IndexSpec_FreeInternals(h, sp))
                   /\ ev' = [NoEv EXCEPT !.name = "freeAsync"]
           ELSE /\ HeapIs(IndexSpec_FreeInternals(h, sp))
                /\ ev' = [NoEv EXCEPT !.name = "freeAsync"]
  /\ UNCHANGED <<spec_unique_ids, lastMatch, lastCreate, rindexes_g, asyncQueue_g>>
  /\ UNCHANGED <<dtVars, rlVars, fdVars>>

\* creations of the indexes A and B, temporary or not
CreateArgsFree ==
  { [name |-> n, prefixGiven |-> TRUE, prefixes |-> <<Str_x>>,
     filter |-> NoExpr, async |-> FALSE, bad |-> FALSE, temporary |-> t,
     schema |-> TRUE] : n \in {Str_A, Str_B}, t \in BOOLEAN }

NextFree ==
  \/ \E args \in CreateArgsFree : ~ev.fatal /\ IndexSpec_CreateNew(args)
  \/ ~ev.fatal /\ IndexSpec_CleanAll
  \/ \E sub \in StartsOfLoad : ~ev.fatal /\ LoadingEvent(sub, << >>, << >>)
  \/ CleanPool_Work

\* indexes that are created, flushed, freed at the start of a load and freed
\* by the cleaning thread
SpecFree == Init /\ [][NextFree]_vars

\* the indexes whose free was handed to the cleaning thread and has not run
Pending == {cleanPool[i] : i \in 1..Len(cleanPool)}

\* C35: an index is freed at most once and is not used after it was freed:
\* no free is pending for an index that was freed already, no index has two
\* frees pending, no free runs on a released object, and an index whose free
\* is pending is not what the lookup of its name returns.
C35_FreedOnceAndUnresolvable ==
  /\ \A sp \in Pending : sp \notin freed
  /\ \A i, j \in 1..Len(cleanPool) : cleanPool[i] = cleanPool[j] => i = j
  /\ ev.name = "freeAsync" => ~ev.fatal
  /\ \A sp \in Pending : IndexSpec_LoadEx(specs[sp].name) # sp

----------------------------------------------------------------------------
(* The indexes rules.c knows: rindexes_g, SchemaRules_UnregisterIndex *)

Str_a == <<"a">>

\* creations of the indexes A and a
CreateArgsReg ==
  { [name |-> n, prefixGiven |-> TRUE, prefixes |-> <<Str_x>>,
     filter |-> NoExpr, async |-> FALSE, bad |-> FALSE, temporary |-> FALSE,
     schema |-> TRUE] : n \in {Str_A, Str_a} }

NextReg ==
  \/ \E args \in CreateArgsReg : IndexSpec_CreateNew(args)
  \/ \E sp \in 1..MaxSpecs : dropping = 0 /\ SchemaRules_RegisterIndex(sp)
  \/ \E sp \in 1..MaxSpecs : SchemaRules_UnregisterIndex(sp)
  \/ \E index \in {"A", "a"} :
       dropping = 0 /\ AddRule(index, "r", <<"PREFIX", "1", "x:">>)
  \/ \E sp \in 1..MaxSpecs : DropIndex(sp)
  \/ IndexSpec_FreeInternals_Finish

\* indexes and rules that are registered with rules.c and unregistered
SpecReg == Init /\ [][NextReg]_vars

\* the index that SchemaRules_UnregisterIndex was last called on
IsUnregistered(sp) ==
  /\ ev.name = "unregister"
  /\ sp \in 1..Len(specs)
  /\ sp \notin freed
  /\ specs[sp].name = ev.key

\* C36: every entry of rindexes_g is a live index: no index that was freed is
\* in the array, and after SchemaRules_UnregisterIndex(sp) the array has no
\* entry of sp, also when sp was registered more than once.
C36_RegisteredIndexesAreLive ==
  /\ \A i \in 1..Len(rindexes_g) : rindexes_g[i] \notin freed
  /\ \A sp \in 1..Len(specs) : IsUnregistered(sp) => Unregistered(sp)

\* C37: SchemaRules_UnregisterIndex(sp) removes the rules of sp and no other
\* rule: the rules it leaves are the rules there were before the call whose
\* index is not the name of sp, in their order; a rule of an index whose name
\* differs from the name of sp by the case of a letter stays.
C37_UnregisterRemovesRulesOfIndex ==
  (pev.name = "unregister" /\ ev.name = "unregister")
  => rules = SelectSeq(pev.before, LAMBDA r : ~SameIndexName_Exact(r.index, ev.key))

----------------------------------------------------------------------------
(* Properties of the count of documents *)

\* C38: the count of documents of an index is the number of keys its table
\* holds, after any indexing and any removal, by the handler of removal
\* notifications or by IndexSpec_DeleteHash.
C38_NumDocumentsIsLiveKeys ==
  \A s \in LiveSpecs :
    specs[s].stats.numDocuments = Cardinality(HeldKeys(specs[s].docs))

----------------------------------------------------------------------------
(* Scans: SchemaRules_ProcessItem with RULES_PROCESS_F_NOREINDEX *)

\* the items the queue has room for while a key is scanned
MaxScanQueue == 2

\* the key is scanned: it is processed with RULES_PROCESS_F_NOREINDEX, and
\* its hash is as it was at the scan before
ScanItem(key) ==
  SchemaRules_ProcessItemUpTo(key, [t |-> "num", n |-> 20],
                              {RULES_PROCESS_F_NOREINDEX},
                              [s \in 1..Len(specs) |-> "indexed"], MaxScanQueue)

NextScan ==
  \/ \E args \in CreateArgsDs : ~ev.fatal /\ IndexSpec_CreateNew(args)
  \/ \E key \in DelKeys : ScanItem(key)
  \/ AIQ_Worker

\* keys that do not change are scanned again and again
SpecScan == Init /\ [][NextScan]_vars

\* C39: scans are idempotent: when a key that does not change is processed
\* more than once with RULES_PROCESS_F_NOREINDEX, each index its rule matches
\* indexes it at most once: the key is not in the queue twice for an index,
\* it is not in the queue for an index that holds it, and the table of an
\* index has given one id for each key it holds.
C39_ScanIndexesKeyOnce ==
  \A s \in LiveSpecs :
    /\ \A key \in DelKeys :
         QueuedFor(asyncQueue_g, s, key) + (IF Holds(s, key) THEN 1 ELSE 0) <= 1
    /\ specs[s].docs.maxDocId = Cardinality(HeldKeys(specs[s].docs))
====
